---- MODULE Spec2Model ----
(***************************************************************************)
(* RFD discussions app for Rocket.Chat: the webhook endpoint, the          *)
(* discussion store, the discussion manager and the signature check.       *)
(*                                                                         *)
(* One delivery is one invocation of WebhookEndpoint.post.  Every await on *)
(* the chat platform or on the persistence layer is one atomic step of     *)
(* that delivery; the synchronous code between two awaits belongs to the   *)
(* step that ends at the later await.  Deliveries interleave at the awaits.*)
(***************************************************************************)
EXTENDS Integers, Sequences, FiniteSets, TLC

\* ------------------------------------------------------------------ bounds
\* Deliveries the external tool sends in one behaviour.
MaxDeliveries == 2
\* Largest reading of the wall clock (new Date()) a behaviour observes.
MaxTime == 1

\* The collaborator and store calls that may fail in one behaviour.
MaxFaults == 1

\* The longest string timingSafeEqual is given.
MaxCompareLen == 3

\* The characters of the strings it is given.
CompareAlphabet == {"a", "c", "f"}

\* The longest byte sequence sha256Bytes is given.
MaxHashBytes == 64

\* ----------------------------------------------------------------- strings
\* Strings are TLA+ strings; Len, \o and SubSeq act on them character-wise.
CharAt(s, i) == SubSeq(s, i, i)

StartsWithAt(s, p, i) == i + Len(p) - 1 <= Len(s) /\ SubSeq(s, i, i + Len(p) - 1) = p

startsWith(s, p) == StartsWithAt(s, p, 1)

\* Body(v), with v evaluated once: what a const declaration does.
Bind(v, Body(_)) == CHOOSE r \in { Body(x) : x \in {v} } : TRUE

\* First index >= i at which p occurs in s, 0 when there is none.
RECURSIVE IndexFrom(_, _, _)
IndexFrom(s, p, i) ==
    IF i + Len(p) - 1 > Len(s) THEN 0
    ELSE IF StartsWithAt(s, p, i) THEN i
    ELSE IndexFrom(s, p, i + 1)

\* The longest run of characters outside `stops` that starts at index i.
RECURSIVE TakeUntil(_, _, _)
TakeUntil(s, i, stops) ==
    IF i > Len(s) \/ CharAt(s, i) \in stops THEN ""
    ELSE CharAt(s, i) \o TakeUntil(s, i + 1, stops)

\* String.prototype.slice(n) for 0 <= n.
slice(s, n) == SubSeq(s, n + 1, Len(s))

\* encodeURIComponent on the characters that occur in site URLs and room paths:
\* the reserved ones are percent-encoded, every other character is kept.
EncodeChar(c) ==
    CASE c = "/" -> "%2F"
      [] c = ":" -> "%3A"
      [] c = "?" -> "%3F"
      [] c = "&" -> "%26"
      [] c = "=" -> "%3D"
      [] c = "%" -> "%25"
      [] c = "#" -> "%23"
      [] c = "@" -> "%40"
      [] c = " " -> "%20"
      [] OTHER -> c

RECURSIVE EncodeFrom(_, _)
EncodeFrom(s, i) ==
    IF i > Len(s) THEN ""
    ELSE Bind(CharAt(s, i), LAMBDA c : EncodeChar(c)) \o EncodeFrom(s, i + 1)

encodeURIComponent(s) == Bind(s, LAMBDA str : EncodeFrom(str, 1))

\* The inverse table of EncodeChar, as decodeURIComponent applies it.
DecodeTriple(t) ==
    CASE t = "%2F" \/ t = "%2f" -> "/"
      [] t = "%3A" \/ t = "%3a" -> ":"
      [] t = "%3F" \/ t = "%3f" -> "?"
      [] t = "%26" -> "&"
      [] t = "%3D" \/ t = "%3d" -> "="
      [] t = "%25" -> "%"
      [] t = "%23" -> "#"
      [] t = "%40" -> "@"
      [] t = "%20" -> " "
      [] OTHER -> t

RECURSIVE DecodeFrom(_, _)
DecodeFrom(s, i) ==
    IF i > Len(s) THEN ""
    ELSE IF CharAt(s, i) = "%" /\ i + 2 <= Len(s)
         THEN DecodeTriple(SubSeq(s, i, i + 2)) \o DecodeFrom(s, i + 3)
         ELSE CharAt(s, i) \o DecodeFrom(s, i + 1)

decodeURIComponent(s) == Bind(s, LAMBDA str : DecodeFrom(str, 1))

\* new URL(u).host for an http(s) URL: what stands between the scheme and the
\* first of / ? # ; "" when u has no http(s) scheme (the constructor throws).
UrlHost(u) ==
    LET start == IF startsWith(u, "https://") THEN 9
                 ELSE IF startsWith(u, "http://") THEN 8 ELSE 0
    IN  IF start = 0 THEN "" ELSE TakeUntil(u, start, {"/", "?", "#"})

\* ------------------------------------------------------ DiscussionManager
\* A mutation of buildDeepLink: the link leads to the site, not to the room.
buildSiteLink(siteUrl, path) == siteUrl

\* DiscussionManager.buildDeepLink; the catch branch takes the host by the
\* regular expression ^(?:https?:\/\/)?([^\/\?\#]+).
buildDeepLink(siteUrl, path) ==
    Bind(UrlHost(siteUrl), LAMBDA parsed :
    Bind(TakeUntil(siteUrl, 1, {"/", "?", "#"}), LAMBDA fallback :
    Bind(IF parsed # "" THEN parsed ELSE IF fallback # "" THEN fallback ELSE siteUrl,
         LAMBDA host :
        "https://go.rocket.chat/room?host=" \o encodeURIComponent(host)
            \o "&path=" \o encodeURIComponent(path))))

\* The match of /\/group\/([^\/\?]+)/ in url: its first group, "" for no match.
RECURSIVE GroupMatchFrom(_, _)
GroupMatchFrom(url, i) ==
    Bind(IndexFrom(url, "/group/", i), LAMBDA at :
        IF at = 0 THEN ""
        ELSE Bind(TakeUntil(url, at + 7, {"/", "?"}), LAMBDA id :
                 IF id # "" THEN id ELSE GroupMatchFrom(url, at + 1)))

\* The match of /[?&]path=group(?:%2F|\/)([^&]+)/i in url, "" for no match.
\* A mutation of the path pattern: it matches nothing.
NoPathMatch(url, i) == ""

RECURSIVE PathMatchFrom(_, _)
PathMatchFrom(url, i) ==
    Bind(IndexFrom(url, "?path=group", i), LAMBDA q :
    Bind(IndexFrom(url, "&path=group", i), LAMBDA a :
    Bind(IF q = 0 THEN a ELSE IF a = 0 THEN q ELSE IF q < a THEN q ELSE a, LAMBDA at :
    Bind(IF StartsWithAt(url, "%2F", at + 11) \/ StartsWithAt(url, "%2f", at + 11)
         THEN at + 11 + 3
         ELSE IF StartsWithAt(url, "/", at + 11) THEN at + 11 + 1 ELSE 0, LAMBDA after :
    Bind(IF after = 0 THEN "" ELSE TakeUntil(url, after, {"&"}), LAMBDA id :
        IF at = 0 THEN ""
        ELSE IF id # "" THEN id
        ELSE PathMatchFrom(url, at + 1))))))

\* A mutation of extractRoomIdFromUrl: the deep link's group is returned as
\* it stands in the URL, undecoded.
extractUndecoded(url) ==
    Bind(url, LAMBDA u :
    Bind(GroupMatchFrom(u, 1), LAMBDA directMatch :
        IF directMatch # "" THEN directMatch ELSE PathMatchFrom(u, 1)))

\* A mutation of extractRoomIdFromUrl: only the direct form is recognised.
extractDirectOnly(url) == GroupMatchFrom(url, 1)

\* DiscussionManager.extractRoomIdFromUrl; "" stands for null.
extractRoomIdFromUrl(url) ==
    Bind(url, LAMBDA u :
    Bind(GroupMatchFrom(u, 1), LAMBDA directMatch :
        IF directMatch # "" THEN directMatch
        ELSE Bind(PathMatchFrom(u, 1), LAMBDA goRocketChatMatch :
                 IF goRocketChatMatch # "" THEN decodeURIComponent(goRocketChatMatch)
                 ELSE "")))

\* WebhookEndpoint.extractRoomIdFromUrl: the direct form only.
endpointExtractRoomIdFromUrl(url) == GroupMatchFrom(url, 1)

\* ------------------------------------------------------------------ crypto
\* A 32-bit word is the pair <<high 16 bits, low 16 bits>>, so that no sum
\* leaves the range of the checker's integers and every addition is taken
\* modulo 2^32 as (x) >>> 0 takes it.
Half == 65536

RECURSIVE BitAnd(_, _)
BitAnd(a, b) ==
    IF a = 0 \/ b = 0 THEN 0
    ELSE (IF a % 2 = 1 /\ b % 2 = 1 THEN 1 ELSE 0) + 2 * BitAnd(a \div 2, b \div 2)

RECURSIVE BitXor(_, _)
BitXor(a, b) ==
    IF a = 0 THEN b
    ELSE IF b = 0 THEN a
    ELSE (IF a % 2 = b % 2 THEN 0 ELSE 1) + 2 * BitXor(a \div 2, b \div 2)

RECURSIVE BitOr(_, _)
BitOr(a, b) ==
    IF a = 0 THEN b
    ELSE IF b = 0 THEN a
    ELSE (IF a % 2 = 1 \/ b % 2 = 1 THEN 1 ELSE 0) + 2 * BitOr(a \div 2, b \div 2)

And32(a, b) == <<BitAnd(a[1], b[1]), BitAnd(a[2], b[2])>>

Xor32(a, b) == <<BitXor(a[1], b[1]), BitXor(a[2], b[2])>>

Not32(a) == <<Half - 1 - a[1], Half - 1 - a[2]>>

Add32(a, b) ==
    LET lo == a[2] + b[2]
        hi == a[1] + b[1] + (lo \div Half)
    IN  <<hi % Half, lo % Half>>

\* n >>> d for 0 < d < 32.
Shr32(n, d) ==
    IF d >= 16 THEN <<0, n[1] \div (2 ^ (d - 16))>>
    ELSE <<n[1] \div (2 ^ d), (n[2] \div (2 ^ d)) + (n[1] % (2 ^ d)) * (2 ^ (16 - d))>>

\* rotr: (n >>> d) | (n << (32 - d)) for 0 < d < 32.
rotr(n, d) ==
    LET m == IF d >= 16 THEN <<n[2], n[1]>> ELSE n
        e == IF d >= 16 THEN d - 16 ELSE d
    IN  IF e = 0 THEN m
        ELSE <<(m[1] \div (2 ^ e)) + (m[2] % (2 ^ e)) * (2 ^ (16 - e)),
               (m[2] \div (2 ^ e)) + (m[1] % (2 ^ e)) * (2 ^ (16 - e))>>

\* sha256Bytes: the round constants K and the initial hash values h0..h7.
K ==
    <<
       <<17034, 12184>>, <<28983, 17553>>, <<46528, 64463>>, <<59829, 56229>>,
       <<14678, 49755>>, <<23025, 4593>>, <<37439, 33444>>, <<43804, 24277>>,
       <<55303, 43672>>, <<4739, 23297>>, <<9265, 34238>>, <<21772, 32195>>,
       <<29374, 23924>>, <<32990, 45566>>, <<39900, 1703>>, <<49563, 61812>>,
       <<58523, 27073>>, <<61374, 18310>>, <<4033, 40390>>, <<9228, 41420>>,
       <<11753, 11375>>, <<19060, 33962>>, <<23728, 43484>>, <<30457, 35034>>,
       <<38974, 20818>>, <<43057, 50797>>, <<45059, 10184>>, <<48985, 32711>>,
       <<50912, 3059>>, <<54695, 37191>>, <<1738, 25425>>, <<5161, 10599>>,
       <<10167, 2693>>, <<11803, 8504>>, <<19756, 28156>>, <<21304, 3347>>,
       <<25866, 29524>>, <<30314, 2747>>, <<33218, 51502>>, <<37490, 11397>>,
       <<41663, 59553>>, <<43034, 26187>>, <<49739, 35696>>, <<51052, 20899>>,
       <<53650, 59417>>, <<54937, 1572>>, <<62478, 13701>>, <<4202, 41072>>,
       <<6564, 49430>>, <<7735, 27656>>, <<10056, 30540>>, <<13488, 48309>>,
       <<14620, 3251>>, <<20184, 43594>>, <<23452, 51791>>, <<26670, 28659>>,
       <<29839, 33518>>, <<30885, 25455>>, <<33992, 30740>>, <<36039, 520>>,
       <<37054, 65530>>, <<42064, 27883>>, <<48889, 41975>>, <<50801, 30962>>
    >>

InitialHash ==
    <<
       <<27145, 58983>>, <<47975, 44677>>, <<15470, 62322>>, <<42319, 62778>>,
       <<20750, 21119>>, <<39685, 26764>>, <<8067, 55723>>, <<23520, 52505>>
    >>

\* DataView.getUint32(at, false) on `bytes`, for an offset inside the buffer.
getUint32(bytes, at) ==
    <<bytes[at + 1] * 256 + bytes[at + 2], bytes[at + 3] * 256 + bytes[at + 4]>>

\* The message schedule W[0..63] of the block at `offset` (1-based here).
RECURSIVE Schedule(_, _, _)
Schedule(bytes, offset, W) ==
    LET i == Len(W)
    IN  IF i = 64 THEN W
        ELSE IF i < 16 THEN Schedule(bytes, offset, Append(W, getUint32(bytes, offset + i * 4)))
        ELSE LET w15 == W[i - 15 + 1]
                 w2 == W[i - 2 + 1]
                 s0 == Xor32(Xor32(rotr(w15, 7), rotr(w15, 18)), Shr32(w15, 3))
                 s1 == Xor32(Xor32(rotr(w2, 17), rotr(w2, 19)), Shr32(w2, 10))
             IN  Schedule(bytes, offset,
                          Append(W, Add32(Add32(Add32(W[i - 16 + 1], s0), W[i - 7 + 1]), s1)))

\* The main loop: from the eight working variables v = <<a, ..., h>> before
\* round i to those after round 63.
RECURSIVE Rounds(_, _, _)
Rounds(v, W, i) ==
    IF i >= 64 \/ Len(v) # 8 THEN v
    ELSE LET a == v[1]  b == v[2]  c == v[3]  d == v[4]
             e == v[5]  f == v[6]  g == v[7]  h == v[8]
             S1 == Xor32(Xor32(rotr(e, 6), rotr(e, 11)), rotr(e, 25))
             ch == Xor32(And32(e, f), And32(Not32(e), g))
             temp1 == Add32(Add32(Add32(Add32(h, S1), ch), K[i + 1]), W[i + 1])
             S0 == Xor32(Xor32(rotr(a, 2), rotr(a, 13)), rotr(a, 22))
             maj == Xor32(Xor32(And32(a, b), And32(a, c)), And32(b, c))
             temp2 == Add32(S0, maj)
         IN  Rounds(<<Add32(temp1, temp2), a, b, c, Add32(d, temp1), e, f, g>>, W, i + 1)

\* One pass of the block loop's body: the hash values after the block at offset.
\* hash[0] = (hash[0] + a) >>> 0, ..., hash[7] = (hash[7] + h) >>> 0
AddWorking(hash, v) ==
    <<Add32(hash[1], v[1]), Add32(hash[2], v[2]), Add32(hash[3], v[3]),
      Add32(hash[4], v[4]), Add32(hash[5], v[5]), Add32(hash[6], v[6]),
      Add32(hash[7], v[7]), Add32(hash[8], v[8])>>

ProcessBlock(hash, bytes, offset) ==
    AddWorking(hash, Rounds(hash, Schedule(bytes, offset, <<>>), 0))

\* The result of a call that may throw.
Returns(v) == [throws |-> FALSE, value |-> v, message |-> ""]

RangeError ==
    [throws |-> TRUE, value |-> <<>>, message |-> "Offset is outside the bounds of the DataView"]

\* for (let offset = 0; offset < totalLength; offset += 64): totalLength is
\* kept in eighths of a byte, since paddingLength / 8 is no whole number; the
\* buffer holds ToIndex(totalLength) bytes and a read past its end throws.
RECURSIVE BlockLoop(_, _, _, _)
BlockLoop(hash, padded, offset, totalLength8) ==
    IF ~(offset * 8 < totalLength8) THEN Returns(hash)
    ELSE IF offset + 16 * 4 > Len(padded) THEN RangeError
    ELSE BlockLoop(ProcessBlock(hash, padded, offset), padded, offset + 64, totalLength8)

\* Whether the block loop reads past the end of the buffer: the offsets alone
\* decide it, whatever the blocks hold.
RECURSIVE LoopThrows(_, _, _)
LoopThrows(size, offset, totalLength8) ==
    IF ~(offset * 8 < totalLength8) THEN FALSE
    ELSE IF offset + 16 * 4 > size THEN TRUE
    ELSE LoopThrows(size, offset + 64, totalLength8)

RECURSIVE WordBytes(_, _)
WordBytes(hash, k) ==
    IF k > Len(hash) THEN <<>>
    ELSE <<hash[k][1] \div 256, hash[k][1] % 256, hash[k][2] \div 256, hash[k][2] % 256>>
             \o WordBytes(hash, k + 1)

\* The 32 bytes of the final hash words, unless the block loop threw.
HashBytes(done) == IF done.throws THEN done ELSE Returns(WordBytes(done.value, 1))

sha256Bytes(data) ==
    LET bitLength == Len(data) * 8
        paddingLength == ((448 - ((bitLength + 1) % 512)) + 512) % 512
        totalLength8 == Len(data) * 8 + 8 + paddingLength + 64
        size == totalLength8 \div 8
        lengthAt == (totalLength8 - 32) \div 8
        lengthField == <<0, 0, (bitLength \div 256) % 256, bitLength % 256>>
        padded == [i \in 1..size |->
                     IF i <= Len(data) THEN data[i]
                     ELSE IF i > lengthAt /\ i <= lengthAt + 4 THEN lengthField[i - lengthAt]
                     ELSE IF i = Len(data) + 1 THEN 128
                     ELSE 0]
    IN  HashBytes(IF LoopThrows(size, 0, totalLength8) THEN RangeError
                  ELSE BlockLoop(InitialHash, padded, 0, totalLength8))

\* TextEncoder.encode on printable ASCII: the code of each character.
AsciiLow == " !\"#$%&'()*+,-./0123456789:;<=>?@ABCDEFGHIJKLMNOPQRSTUVWXYZ[\\]^_"

AsciiHigh == "abcdefghijklmnopqrstuvwxyz{|}~"

\* The code unit of every character of the two tables.
CharCodes ==
    [c \in { CharAt(AsciiLow, i) : i \in 1..Len(AsciiLow) }
            \cup { CharAt(AsciiHigh, i) : i \in 1..Len(AsciiHigh) } |->
        LET low == IndexFrom(AsciiLow, c, 1)
        IN  IF low # 0 THEN 31 + low ELSE 96 + IndexFrom(AsciiHigh, c, 1)]

charCodeAt(s, i) == CharCodes[CharAt(s, i)]

stringToBytes(str) == [i \in 1..Len(str) |-> charCodeAt(str, i)]

HexDigits == "0123456789abcdef"

RECURSIVE bytesToHex(_)
bytesToHex(bytes) ==
    IF bytes = <<>> THEN ""
    ELSE CharAt(HexDigits, (bytes[1] \div 16) + 1) \o CharAt(HexDigits, (bytes[1] % 16) + 1)
             \o bytesToHex(Tail(bytes))

\* hmacSha256 (RFC 2104) with blockSize = 64; a throw of sha256Bytes leaves it.
hmacSha256(message, key) ==
    LET blockSize == 64
        Keyed(hashedKey) ==
            LET keyBytes == [i \in 1..blockSize |->
                               IF i <= Len(hashedKey.value) THEN hashedKey.value[i] ELSE 0]
                innerPadded == [i \in 1..blockSize |-> BitXor(keyBytes[i], 54)]
                outerPadded == [i \in 1..blockSize |-> BitXor(keyBytes[i], 92)]
                Final(finalHash) ==
                    IF finalHash.throws THEN finalHash
                    ELSE Returns(bytesToHex(finalHash.value))
                Outer(innerHash) ==
                    IF innerHash.throws THEN innerHash
                    ELSE Final(sha256Bytes(outerPadded \o innerHash.value))
            IN  IF hashedKey.throws THEN hashedKey
                ELSE Outer(sha256Bytes(innerPadded \o stringToBytes(message)))
        Raw(rawKey) ==
            Keyed(IF Len(rawKey) > blockSize THEN sha256Bytes(rawKey) ELSE Returns(rawKey))
    IN  Raw(stringToBytes(key))

computeHmacSha256(message, secret) == hmacSha256(message, secret)

\* timingSafeEqual: the OR of the XORs of all character pairs is 0.
RECURSIVE XorAccumulate(_, _, _, _)
XorAccumulate(a, b, i, result) ==
    IF ~(i < Len(a)) THEN result
    ELSE XorAccumulate(a, b, i + 1,
                       BitOr(result, BitXor(charCodeAt(a, i + 1), charCodeAt(b, i + 1))))

timingSafeEqual(a, b) ==
    IF Len(a) # Len(b) THEN FALSE ELSE XorAccumulate(a, b, 0, 0) = 0

\* verifySignature as each of the two modules defines it.
verifySignature(module, body, signature, secret) ==
    IF signature = "" \/ ~startsWith(signature, "sha256=") THEN Returns(FALSE)
    ELSE IF module = "lib/crypto.ts" THEN Returns(TRUE)
    ELSE LET providedHash == slice(signature, 7)
             Compare(expectedHash) ==
                 IF expectedHash.throws THEN expectedHash
                 ELSE Returns(timingSafeEqual(providedHash, expectedHash.value))
         IN  Compare(computeHmacSha256(body, secret))

\* -------------------------------------------------------------- lib/types
\* An optional value is a sequence: <<>> when absent, <<v>> when present.
\* An absent or empty string is "": both are falsy where the code tests them.
Present(o) == o # <<>>

RfdIds == {"0042", "0043"}

Title(id) == IF id = "0042" THEN "Caching layer" ELSE "Queue design"

\* "alice@x.com" is the e-mail of a member of the parent room; "carol" is the
\* username of a user outside it.
Authors(id) == IF id = "0042" THEN <<"alice@x.com">> ELSE <<"carol">>

Link(id) == "https://adrs.example.com/rfd/" \o id

Rfd(id, discussion) ==
    [id |-> id, title |-> Title(id), authors |-> Authors(id), state |-> "ideation",
     tags |-> <<"perf">>, discussion |-> discussion]

STATE_DESCRIPTIONS(state) ==
    CASE state = "prediscussion" -> "Pre-Discussion - Not yet open for feedback"
      [] state = "ideation" -> "Ideation - Early idea, feedback welcome"
      [] state = "discussion" -> "Discussion - Actively seeking input"
      [] state = "published" -> "Published - Accepted, open for comments"
      [] state = "committed" -> "Committed - Implemented"
      [] state = "abandoned" -> "Abandoned - No longer being pursued"

NoField == <<>>

\* RFDChanges: every field optional; content is a flag.
Changes(state, title, content, authors, tags) ==
    [state |-> state, title |-> title, content |-> content, authors |-> authors, tags |-> tags]

EmptyChanges == Changes(NoField, NoField, FALSE, NoField, NoField)

\* A ChangeSet with every field populated.
AllChanges ==
    Changes(<<[old |-> "ideation", new |-> "discussion"]>>,
            <<[old |-> "Caching", new |-> "Caching layer"]>>, TRUE,
            <<[old |-> <<"alice@x.com">>, new |-> <<"alice@x.com", "carol">>]>>,
            <<[old |-> <<"a", "b">>, new |-> <<"b", "c">>]>>)

ChangeSets == { EmptyChanges, AllChanges }

\* WebhookPayload as request.content carries it.
Payload(event, rfd, id, changes) ==
    [event |-> event, rfd |-> rfd, link |-> Link(id), changes |-> changes]

\* ------------------------------------------------------------- environment
\* apps-engine HttpStatusCode members, by name.
HttpStatusCodes == {"OK", "BAD_REQUEST", "UNAUTHORIZED", "INTERNAL_SERVER_ERROR"}

\* The two modules of the repository that export verifySignature.
CryptoModules == {"lib/crypto.ts", "part_000"}

Secret == "s3cret"

ServerSiteUrl == "https://open.rocket.chat"

FallbackSiteUrl == "https://chat.example.com"

\* The app's settings as an administrator may have left them; the two
\* booleans are at their package values except in the first.
Configurations ==
    { [webhook_secret |-> Secret, parent_channel |-> "rfds",
       site_url |-> "https://chat.example.com", prefix |-> "ADR",
       overwrite_invalid_discussion_url |-> TRUE, use_deep_links |-> FALSE],
      [webhook_secret |-> Secret, parent_channel |-> "rfds", site_url |-> "", prefix |-> "",
       overwrite_invalid_discussion_url |-> FALSE, use_deep_links |-> TRUE],
      [webhook_secret |-> "", parent_channel |-> "rfds", site_url |-> "", prefix |-> "",
       overwrite_invalid_discussion_url |-> FALSE, use_deep_links |-> TRUE],
      [webhook_secret |-> Secret, parent_channel |-> "", site_url |-> "", prefix |-> "",
       overwrite_invalid_discussion_url |-> FALSE, use_deep_links |-> TRUE] }

\* getMembers(parentRoom.id): the members of the parent room, in array order.
Members == << [username |-> "alice", emails |-> <<"Alice@x.com">>],
              [username |-> "bob", emails |-> <<"bob@x.com">>] >>

\* The users getByUsername finds outside the parent room.
OtherUsers == { "carol" }

\* A private group that exists on the server and is no discussion of this app.
ForeignRoom == [id |-> "GRP1", parentRoom |-> "", displayName |-> "general"]

ParentRoomId == "PARENT"

Deliveries == 1..MaxDeliveries

Times == 0..MaxTime

\* ----------------------------------------------------- author resolution
UpperCase == "ABCDEFGHIJKLMNOPQRSTUVWXYZ"

LowerCase == "abcdefghijklmnopqrstuvwxyz"

LowerChar(c) ==
    Bind(c, LAMBDA ch :
        IF \E k \in 1..Len(UpperCase) : CharAt(UpperCase, k) = ch
        THEN CharAt(LowerCase, CHOOSE k \in 1..Len(UpperCase) : CharAt(UpperCase, k) = ch)
        ELSE ch)

RECURSIVE LowerFrom(_, _)
LowerFrom(s, i) == IF i > Len(s) THEN "" ELSE LowerChar(CharAt(s, i)) \o LowerFrom(s, i + 1)

toLowerCase(s) == Bind(s, LAMBDA str : LowerFrom(str, 1))

RECURSIVE TrimLeft(_)
TrimLeft(s) == IF Len(s) > 0 /\ CharAt(s, 1) = " " THEN TrimLeft(slice(s, 1)) ELSE s

RECURSIVE TrimRight(_)
TrimRight(s) ==
    IF Len(s) > 0 /\ CharAt(s, Len(s)) = " " THEN TrimRight(SubSeq(s, 1, Len(s) - 1)) ELSE s

trim(s) == Bind(s, LAMBDA str : TrimRight(TrimLeft(str)))

\* The first group of /<([^>]+)>/ in s, "" for no match.
RECURSIVE AngleMatchFrom(_, _)
AngleMatchFrom(s, i) ==
    Bind(IndexFrom(s, "<", i), LAMBDA at :
        IF at = 0 THEN ""
        ELSE Bind(TakeUntil(s, at + 1, {">"}), LAMBDA inner :
                 IF inner # "" /\ at + Len(inner) + 1 <= Len(s) THEN inner
                 ELSE AngleMatchFrom(s, at + 1)))

\* const email = emailMatch ? emailMatch[1].toLowerCase() : trimmedInput.toLowerCase()
DerivedEmail(trimmedInput) ==
    Bind(AngleMatchFrom(trimmedInput, 1), LAMBDA emailMatch :
        IF emailMatch # "" THEN toLowerCase(emailMatch) ELSE toLowerCase(trimmedInput))

HasEmail(m, email) == \E k \in 1..Len(m.emails) : toLowerCase(m.emails[k]) = email

\* members.find(m => m.emails.some(e => e.address.toLowerCase() === email)):
\* the first such member as <<member>>, or <<>>.
RECURSIVE FindByEmail(_, _, _)
FindByEmail(members, i, email) ==
    IF i > Len(members) THEN <<>>
    ELSE IF HasEmail(members[i], email) THEN <<members[i]>>
    ELSE FindByEmail(members, i + 1, email)

\* members.find(m => m.username.toLowerCase() === email ||
\*                   m.username.toLowerCase() === trimmedInput.toLowerCase())
RECURSIVE FindByUsername(_, _, _, _)
FindByUsername(members, i, email, trimmedInput) ==
    IF i > Len(members) THEN <<>>
    ELSE IF \/ toLowerCase(members[i].username) = email
            \/ toLowerCase(members[i].username) = toLowerCase(trimmedInput)
         THEN <<members[i]>>
    ELSE FindByUsername(members, i + 1, email, trimmedInput)

\* A mutation of the resolution among members: usernames are not tried.
ResolveByEmailOnly(members, trimmedInput) ==
    FindByEmail(members, 1, DerivedEmail(trimmedInput))

\* The member of the parent room an author token resolves to, by e-mail first
\* and by username second, as <<member>>, or <<>>.
ResolveAmongMembers(members, trimmedInput) ==
    Bind(DerivedEmail(trimmedInput), LAMBDA email :
    Bind(FindByEmail(members, 1, email), LAMBDA user :
        IF user # <<>> THEN user ELSE FindByUsername(members, 1, email, trimmedInput)))

Contains(s, p) == Bind(s, LAMBDA str : IndexFrom(str, p, 1) # 0)

\* A mutation of isValidDiscussionUrl: every URL that parses is valid.
isValidAnyUrl(url, siteUrl) == UrlHost(url) # ""

\* DiscussionManager.isValidDiscussionUrl: the URL is on the site's host, or
\* is a go.rocket.chat link whose host parameter is the site's host.  A URL
\* the constructor rejects has no host here, and is invalid.
isValidDiscussionUrl(url, siteUrl) ==
    LET host == toLowerCase(UrlHost(url))
        siteHost == toLowerCase(UrlHost(siteUrl))
        first == IndexFrom(url, "?host=", 1)
        later == IndexFrom(url, "&host=", IndexFrom(url, "?", 1) + 1)
        at == IF first # 0 THEN first ELSE later
        hostParam == IF at = 0 \/ IndexFrom(url, "?", 1) = 0 THEN ""
                     ELSE decodeURIComponent(TakeUntil(url, at + 6, {"&", "#"}))
    IN  IF url = "" THEN FALSE
        ELSE IF UrlHost(url) = "" \/ UrlHost(siteUrl) = "" THEN FALSE
        ELSE IF host = "go.rocket.chat"
             THEN IF hostParam = "" THEN FALSE ELSE toLowerCase(hostParam) = siteHost
        ELSE host = siteHost

\* ----------------------------------------------------------- JSON.stringify
RECURSIVE join(_, _)
join(parts, sep) ==
    IF parts = <<>> THEN ""
    ELSE IF Len(parts) = 1 THEN parts[1]
    ELSE parts[1] \o sep \o join(Tail(parts), sep)

Quote(s) == "\"" \o s \o "\""

RECURSIVE QuoteAll(_)
QuoteAll(strings) ==
    IF strings = <<>> THEN <<>> ELSE <<Quote(strings[1])>> \o QuoteAll(Tail(strings))

JsonArray(strings) == "[" \o join(QuoteAll(strings), ",") \o "]"

JsonMember(key, json) == Quote(key) \o ":" \o json

JsonObject(members) == "{" \o join(members, ",") \o "}"

\* A member whose value is undefined is left out.
StringifyRfd(rfd) ==
    JsonObject(<<JsonMember("id", Quote(rfd.id)), JsonMember("title", Quote(rfd.title)),
                 JsonMember("authors", JsonArray(rfd.authors)),
                 JsonMember("state", Quote(rfd.state)), JsonMember("tags", JsonArray(rfd.tags))>>
               \o (IF rfd.discussion = "" THEN <<>>
                   ELSE <<JsonMember("discussion", Quote(rfd.discussion))>>))

StringifyChange(key, change, Json(_)) ==
    IF change = <<>> THEN <<>>
    ELSE <<JsonMember(key, JsonObject(<<JsonMember("old", Json(change[1].old)),
                                        JsonMember("new", Json(change[1].new))>>))>>

StringifyChanges(changes) ==
    JsonObject(StringifyChange("state", changes.state, Quote)
               \o StringifyChange("title", changes.title, Quote)
               \o (IF changes.content THEN <<JsonMember("content", "true")>> ELSE <<>>)
               \o StringifyChange("authors", changes.authors, JsonArray)
               \o StringifyChange("tags", changes.tags, JsonArray))

\* JSON.stringify(request.content)
JSONstringify(content) ==
    JsonObject((IF content.event = "" THEN <<>> ELSE <<JsonMember("event", Quote(content.event))>>)
               \o (IF content.rfd = <<>> THEN <<>>
                   ELSE <<JsonMember("rfd", StringifyRfd(content.rfd[1]))>>)
               \o <<JsonMember("link", Quote(content.link))>>
               \o (IF content.changes = <<>> THEN <<>>
                   ELSE <<JsonMember("changes", StringifyChanges(content.changes[1]))>>))

\* ----------------------------------------------------------------- requests
\* Discussion references a payload may carry: none, a direct link to a group
\* that exists on the server, and a link that names no room.
References == {"", "https://chat.example.com/group/GRP1", "https://github.com/org/repo/pull/7"}

CreatedContents ==
    { Payload("rfd.created", <<Rfd("0042", ref)>>, "0042", <<>>) : ref \in References }
    \cup { Payload("rfd.created", <<Rfd("0043", "")>>, "0043", <<>>) }

UpdatedContents ==
    { Payload("rfd.updated", <<Rfd("0042", ref)>>, "0042", ch) :
        ref \in References, ch \in {<<>>} \cup { <<c>> : c \in ChangeSets } }
    \cup { Payload("rfd.updated", <<Rfd("0043", "")>>, "0043", <<>>) }

\* Payloads the endpoint rejects: no event, no rfd, an event it does not know.
MalformedContents ==
    { Payload("", <<Rfd("0042", "")>>, "0042", <<>>),
      Payload("rfd.created", <<>>, "0042", <<>>),
      Payload("rfd.deleted", <<Rfd("0042", "")>>, "0042", <<>>) }

\* An x-rfd-signature header of the expected shape: the prefix and 64 hex digits.
WellFormedSignature ==
    "sha256=" \o "5d5b09f6dcb2d53a5fffc60c4ac0d55fabdf556069d6631545f42aa6e3500f2e"

\* Headers that cannot be the signature of any body: none, no prefix, a digest
\* of the wrong length.
BadSignatures == {"", "deadbeef", "sha256=abc123"}

Requests ==
    { [content |-> c, signature |-> WellFormedSignature] :
        c \in CreatedContents \cup UpdatedContents \cup MalformedContents }
    \cup { [content |-> Payload("rfd.created", <<Rfd("0042", "")>>, "0042", <<>>),
            signature |-> sig] : sig \in BadSignatures }

NoRequest == [content |-> <<>>, signature |-> ""]

\* -------------------------------------------------------------------- state
VARIABLES
    cryptoModule,   \* the module '../lib/crypto' resolves to in this build
    settings,       \* the app's settings
    store,          \* the persistence records, in insertion order
    rooms,          \* the rooms of the chat server
    serverSettings, \* the server's Site_Url: <<url>>, or <<>> when reading it throws
    now,            \* the clock new Date() reads
    pc,             \* per delivery: the await its handler is suspended at
    req,            \* per delivery: the request it carries
    loc,            \* per delivery: the handler's local variables
    resp,           \* per delivery: the response post() returned
    out,            \* per delivery: the calls it made and what they changed
    faults,         \* the calls that failed so far
    cmp,            \* a call of timingSafeEqual: arguments, loop variables, result
    call            \* a call of one of the pure functions: arguments and result

vars ==
    <<cryptoModule, settings, store, rooms, serverSettings, now, pc, req, loc, resp, out, faults,
      cmp, call>>

\* What an await of the chat collaborator leaves alone.
Untouched == <<cryptoModule, settings, store, rooms, serverSettings, now, req, cmp, call>>

NoResponse == [status |-> "", content |-> <<>>]

\* WebhookEndpoint.errorResponse
errorResponse(status, message) ==
    [status |-> status, content |-> [success |-> FALSE, error |-> message]]

\* WebhookEndpoint.jsonResponse
jsonResponse(content) == [status |-> "OK", content |-> content]

\* A mutation of the catch block: the error is thrown on, and post() returns
\* no response.
Rethrown(message) == NoResponse

\* A mutation of the catch block: the error is dropped and success is reported.
Dropped(message) == jsonResponse([success |-> TRUE])

\* The catch block of post(): whatever the handlers throw becomes a 500 that
\* carries the error's message.
Caught(message) == errorResponse("INTERNAL_SERVER_ERROR", message)

NoLocals ==
    [siteUrl |-> "", prefix |-> "", parentChannel |-> "", discussionUrl |-> "",
     roomId |-> "", discussionParent |-> "", manager |-> "", todo |-> <<>>, user |-> "",
     updateParts |-> <<>>]

NoEffects ==
    [calls |-> {}, failed |-> {}, existing |-> <<>>, created |-> "", description |-> <<>>,
     added |-> {}, message |-> <<>>, stored |-> <<>>]

\* timingSafeEqual before it is called; `comparisons` counts the character
\* pairs the loop has read.
NoComparison ==
    [pc |-> "idle", a |-> "", b |-> "", i |-> 0, result |-> 0, comparisons |-> 0,
     value |-> FALSE]

\* No pure function has been called.
NoCall == [pc |-> "idle", fn |-> "", of |-> <<>>, args |-> <<>>, result |-> <<>>]

Init ==
    /\ cmp = NoComparison
    /\ call = NoCall
    /\ cryptoModule \in CryptoModules
    /\ settings \in Configurations
    /\ store = <<>>
    /\ rooms = {ForeignRoom}
    /\ serverSettings \in IF settings.site_url = "" THEN {<<ServerSiteUrl>>, <<>>}
                          ELSE {<<ServerSiteUrl>>}
    /\ now = 0
    /\ pc = [d \in Deliveries |-> "idle"]
    /\ req = [d \in Deliveries |-> NoRequest]
    /\ loc = [d \in Deliveries |-> NoLocals]
    /\ resp = [d \in Deliveries |-> NoResponse]
    /\ out = [d \in Deliveries |-> NoEffects]
    /\ faults = 0

\* ------------------------------------------------------- timingSafeEqual
\* The strings of at most n characters of CompareAlphabet.
RECURSIVE StringsUpTo(_)
StringsUpTo(n) ==
    IF n = 0 THEN {""}
    ELSE StringsUpTo(n - 1) \cup { s \o c : s \in StringsUpTo(n - 1), c \in CompareAlphabet }

\* timingSafeEqual(a, b) is called, for any two short digests.
InitCompare ==
    /\ cmp \in { [NoComparison EXCEPT !.pc = "called", !.a = a, !.b = b] :
                    a \in StringsUpTo(MaxCompareLen), b \in StringsUpTo(MaxCompareLen) }
    /\ call = NoCall
    /\ cryptoModule = "part_000"
    /\ settings \in Configurations
    /\ store = <<>>
    /\ rooms = {ForeignRoom}
    /\ serverSettings = <<ServerSiteUrl>>
    /\ now = 0
    /\ pc = [d \in Deliveries |-> "idle"]
    /\ req = [d \in Deliveries |-> NoRequest]
    /\ loc = [d \in Deliveries |-> NoLocals]
    /\ resp = [d \in Deliveries |-> NoResponse]
    /\ out = [d \in Deliveries |-> NoEffects]
    /\ faults = 0

\* if (a.length !== b.length) return false; let result = 0
CompareLengths ==
    /\ cmp.pc = "called"
    /\ cmp' = IF Len(cmp.a) # Len(cmp.b)
              THEN [cmp EXCEPT !.pc = "returned", !.value = FALSE]
              ELSE [cmp EXCEPT !.pc = "loop", !.i = 0, !.result = 0]
    /\ UNCHANGED <<cryptoModule, settings, store, rooms, serverSettings, now, pc, req, loc,
                   resp, out, faults, call>>

\* A mutation of the loop body: the loop is left at the first mismatch.
CompareUntilMismatch ==
    /\ cmp.pc = "loop"
    /\ cmp.i < Len(cmp.a)
    /\ cmp' = IF charCodeAt(cmp.a, cmp.i + 1) # charCodeAt(cmp.b, cmp.i + 1)
              THEN [cmp EXCEPT !.pc = "returned", !.value = FALSE,
                               !.comparisons = @ + 1]
              ELSE [cmp EXCEPT !.i = @ + 1, !.comparisons = @ + 1]
    /\ UNCHANGED <<cryptoModule, settings, store, rooms, serverSettings, now, pc, req, loc,
                   resp, out, faults, call>>

\* for (let i = 0; i < a.length; i++) result |= a.charCodeAt(i) ^ b.charCodeAt(i):
\* one pass of the loop.
CompareCharacters ==
    /\ cmp.pc = "loop"
    /\ cmp.i < Len(cmp.a)
    /\ cmp' = [cmp EXCEPT !.result = BitOr(@, BitXor(charCodeAt(cmp.a, cmp.i + 1),
                                                     charCodeAt(cmp.b, cmp.i + 1))),
                          !.i = @ + 1,
                          !.comparisons = @ + 1]
    /\ UNCHANGED <<cryptoModule, settings, store, rooms, serverSettings, now, pc, req, loc,
                   resp, out, faults, call>>

\* The loop condition fails: return result === 0
CompareReturn ==
    /\ cmp.pc = "loop"
    /\ ~(cmp.i < Len(cmp.a))
    /\ cmp' = [cmp EXCEPT !.pc = "returned", !.value = (cmp.result = 0)]
    /\ UNCHANGED <<cryptoModule, settings, store, rooms, serverSettings, now, pc, req, loc,
                   resp, out, faults, call>>

NextCompare == CompareLengths \/ CompareCharacters \/ CompareReturn

\* One call of timingSafeEqual, statement by statement.
SpecCompare == InitCompare /\ [][NextCompare]_vars

\* ------------------------------------------------- the pure functions, called
\* One of sha256Bytes, extractRoomIdFromUrl, buildDeepLink and
\* isValidDiscussionUrl is called.  `of` says what the arguments were made
\* from: the room and host a URL names and the form it has.
InitPure ==
    LET Hosts == {"chat.example.com", "rc.example.org:3000", "group.example.com"}
        SafeRoomIds == {"ROOM123", "a-b_c.d~e", "group"}
        RoomIds == SafeRoomIds \cup {"a b"}
        UrlHosts == {"chat.example.com", "CHAT.Example.com", "github.com", "other.example.org"}
        SiteHosts == {"chat.example.com", "Chat.Example.com", "rc.example.org:3000"}
        Deep(h, path) == "https://go.rocket.chat/room?host=" \o h \o "&path=" \o path
        Called(fn, of, args) ==
            [pc |-> "called", fn |-> fn, of |-> of, args |-> args, result |-> <<>>]
        Extract(form, h, r, url) ==
            Called("extractRoomIdFromUrl", [form |-> form, host |-> h, roomId |-> r], <<url>>)
        Valid(form, h, site, url) ==
            Called("isValidDiscussionUrl", [form |-> form, host |-> h, siteHost |-> site],
                   <<url, "https://" \o site>>)
    IN  /\ call \in
              { Called("sha256Bytes", [length |-> n], <<[i \in 1..n |-> 97]>>) :
                  n \in 0..MaxHashBytes }
              \cup { Called("sha256Bytes", [length |-> 3], <<stringToBytes("abc")>>) }
              \cup { Extract("direct", h, r, "https://" \o h \o "/group/" \o r) :
                       h \in Hosts, r \in RoomIds }
              \cup { Extract("direct", h, r,
                             "https://" \o h \o "/group/" \o r \o "?layout=embedded") :
                       h \in Hosts, r \in RoomIds }
              \cup { Extract("deep", h, r, Deep(h, "group%2F" \o encodeURIComponent(r))) :
                       h \in Hosts, r \in RoomIds }
              \cup { Extract("deep", h, r, Deep(h, "group/" \o encodeURIComponent(r))) :
                       h \in Hosts, r \in RoomIds }
              \cup { Called("buildDeepLink", [host |-> h, roomId |-> r],
                            <<"https://" \o h, "group/" \o r>>) :
                       h \in Hosts, r \in SafeRoomIds }
              \cup { Valid("direct", h, site, "https://" \o h \o "/group/ROOM123") :
                       h \in UrlHosts, site \in SiteHosts }
              \cup { Valid("direct", "github.com", site, "https://github.com/org/repo/pull/7") :
                       site \in SiteHosts }
              \cup { Valid("deep", h, site, Deep(h, "group%2FROOM123")) :
                       h \in UrlHosts, site \in SiteHosts }
              \cup { Valid("deep", "", site, "https://go.rocket.chat/room?path=group%2FROOM123") :
                       site \in SiteHosts }
              \cup { Valid("none", "", site, url) :
                       site \in SiteHosts, url \in {"", "/group/ROOM123"} }
        /\ cmp = NoComparison
        /\ cryptoModule = "part_000"
        /\ settings \in {c \in Configurations : c.site_url # ""}
        /\ store = <<>>
        /\ rooms = {ForeignRoom}
        /\ serverSettings = <<ServerSiteUrl>>
        /\ now = 0
        /\ pc = [d \in Deliveries |-> "idle"]
        /\ req = [d \in Deliveries |-> NoRequest]
        /\ loc = [d \in Deliveries |-> NoLocals]
        /\ resp = [d \in Deliveries |-> NoResponse]
        /\ out = [d \in Deliveries |-> NoEffects]
        /\ faults = 0

\* sha256Bytes(data) returns or throws.
CallSha256Bytes ==
    /\ call.pc = "called"
    /\ call.fn = "sha256Bytes"
    /\ call' = [call EXCEPT !.pc = "returned", !.result = sha256Bytes(call.args[1])]
    /\ UNCHANGED <<cryptoModule, settings, store, rooms, serverSettings, now, pc, req, loc,
                   resp, out, faults, cmp>>

\* extractRoomIdFromUrl(url) returns; null is "".
CallExtractRoomIdFromUrl ==
    /\ call.pc = "called"
    /\ call.fn = "extractRoomIdFromUrl"
    /\ call' = [call EXCEPT !.pc = "returned", !.result = extractRoomIdFromUrl(call.args[1])]
    /\ UNCHANGED <<cryptoModule, settings, store, rooms, serverSettings, now, pc, req, loc,
                   resp, out, faults, cmp>>

\* buildDeepLink(siteUrl, path) returns.
CallBuildDeepLink ==
    /\ call.pc = "called"
    /\ call.fn = "buildDeepLink"
    /\ call' = [call EXCEPT !.pc = "returned",
                           !.result = buildDeepLink(call.args[1], call.args[2])]
    /\ UNCHANGED <<cryptoModule, settings, store, rooms, serverSettings, now, pc, req, loc,
                   resp, out, faults, cmp>>

\* isValidDiscussionUrl(url, siteUrl) returns.
CallIsValidDiscussionUrl ==
    /\ call.pc = "called"
    /\ call.fn = "isValidDiscussionUrl"
    /\ call' = [call EXCEPT !.pc = "returned",
                           !.result = isValidDiscussionUrl(call.args[1], call.args[2])]
    /\ UNCHANGED <<cryptoModule, settings, store, rooms, serverSettings, now, pc, req, loc,
                   resp, out, faults, cmp>>

NextPure ==
    \/ CallSha256Bytes
    \/ CallExtractRoomIdFromUrl
    \/ CallBuildDeepLink
    \/ CallIsValidDiscussionUrl

\* One call of one pure function.
SpecPure == InitPure /\ [][NextPure]_vars

\* A handler's next position: the await it suspends at, or "done" with the
\* response it returned.
Suspend(label, l) == [pc |-> label, loc |-> l, resp |-> NoResponse]

\* The locals are gone when post() has returned.
Return(response, l) == [pc |-> "done", loc |-> NoLocals, resp |-> response]

Continue(d, k) ==
    \E next \in {k} :
        /\ pc' = [pc EXCEPT ![d] = next.pc]
        /\ loc' = [loc EXCEPT ![d] = next.loc]
        /\ resp' = [resp EXCEPT ![d] = next.resp]

Called(d, op) == [out[d] EXCEPT !.calls = @ \cup {op}]

Failed(d, op) == [out[d] EXCEPT !.calls = @ \cup {op}, !.failed = @ \cup {op}]

\* A call of delivery d goes through, with these effects.
Calls(d, effects) ==
    /\ out' = [out EXCEPT ![d] = effects]
    /\ UNCHANGED faults

\* A call of delivery d fails: it throws, or it finds nothing.
Fails(d, op) ==
    /\ faults < MaxFaults
    /\ faults' = faults + 1
    /\ out' = [out EXCEPT ![d] = Failed(d, op)]

\* ----------------------------------------------------------- DiscussionStore
Association(rfdId) == "rfd-discussion:" \o rfdId

\* IPersistenceRead.readByAssociation
readByAssociation(records, association) ==
    SelectSeq(records, LAMBDA r : r.association = association)

\* A mutation of getDiscussion: it finds nothing, whatever the store holds.
getNothing(records, rfdId) == <<>>

\* DiscussionStore.getDiscussion: <<record>>, or <<>> for null.
getDiscussion(records, rfdId) ==
    LET results == readByAssociation(records, Association(rfdId))
    IN  IF Len(results) > 0 THEN <<results[1].data>> ELSE <<>>

\* A mutation of updateByAssociation: it inserts and never replaces.
InsertAlways(records, association, data) ==
    Append(records, [association |-> association, data |-> data])

\* IPersistence.updateByAssociation(association, data, true): the record of
\* the association is replaced, or inserted when there is none.
updateByAssociation(records, association, data) ==
    IF \E i \in 1..Len(records) : records[i].association = association
    THEN [i \in 1..Len(records) |->
            IF records[i].association = association
            THEN [association |-> association, data |-> data] ELSE records[i]]
    ELSE Append(records, [association |-> association, data |-> data])

\* new Date().toISOString() at clock reading t
toISOString(t) == "2025-01-01T00:00:0" \o ToString(t) \o ".000Z"

\* The record storeDiscussion writes.
StoredDiscussion(rfdId, roomId, roomUrl, t) ==
    [rfdId |-> rfdId, roomId |-> roomId, roomUrl |-> roomUrl, createdAt |-> toISOString(t)]

\* -------------------------------------------- DiscussionManager, between awaits
\* Emoji of the source's message texts are written as their short codes, and
\* its arrow as "->".
buildDescription(rfd, rfdLink) ==
    STATE_DESCRIPTIONS(rfd.state) \o " | Tags: "
        \o (IF join(rfd.tags, ", ") = "" THEN "none" ELSE join(rfd.tags, ", "))

fullDescription(rfd, rfdLink) ==
    buildDescription(rfd, rfdLink) \o "\n\n:memo: View ADR: " \o rfdLink

discussionName(prefix, rfd) == prefix \o "-" \o rfd.id \o ": " \o rfd.title

\* The text createDiscussion posts to the new room.
InitialMessage(prefix, rfd, rfdLink) ==
    ":tada: **New " \o prefix \o " Created**\n\n"
        \o "**" \o rfd.title \o "**\n\n"
        \o STATE_DESCRIPTIONS(rfd.state) \o "\n\n"
        \o ":link: [Read the full " \o prefix \o "](" \o rfdLink \o ")\n\n"
        \o "_Authors: " \o join(rfd.authors, ", ") \o "_"

includes(array, x) == \E i \in 1..Len(array) : array[i] = x

\* A mutation of the filter: nothing is excluded.
Unfiltered(array, excluded) == array

\* array.filter(x => !excluded.includes(x))
Without(array, excluded) == SelectSeq(array, LAMBDA x : ~includes(excluded, x))

RECURSIVE Prefixed(_, _)
Prefixed(sign, tags) ==
    IF tags = <<>> THEN <<>> ELSE <<sign \o tags[1]>> \o Prefixed(sign, Tail(tags))

\* updateDiscussion from the tag changes to its end: the last part, then the
\* message if there is anything to report.
FromTags(l, changes) ==
    Bind(IF changes.tags = <<>> THEN <<>>
         ELSE Without(changes.tags[1].new, changes.tags[1].old), LAMBDA addedTags :
    Bind(IF changes.tags = <<>> THEN <<>>
         ELSE Without(changes.tags[1].old, changes.tags[1].new), LAMBDA removedTags :
    Bind(":label: **Tags changed:**"
            \o (IF addedTags # <<>> THEN " " \o join(Prefixed("+", addedTags), ", ") ELSE "")
            \o (IF removedTags # <<>> THEN " " \o join(Prefixed("-", removedTags), ", ") ELSE ""),
         LAMBDA tagMsg :
    Bind([l EXCEPT !.updateParts = IF addedTags # <<>> \/ removedTags # <<>>
                                   THEN Append(@, tagMsg) ELSE @], LAMBDA l1 :
        IF Len(l1.updateParts) > 0 THEN Suspend("ud_post", l1)
        ELSE Return(jsonResponse([success |-> TRUE]), l1)))))

\* A mutation of the author diff: every author of the new list is new.
allNewAuthors(changes) ==
    IF changes.authors = <<>> THEN <<>> ELSE changes.authors[1].new

\* changes.authors.new.filter(a => !changes.authors.old.includes(a))
newAuthors(changes) ==
    IF changes.authors = <<>> THEN <<>>
    ELSE Without(changes.authors[1].new, changes.authors[1].old)

\* A mutation of the authors part: its line goes to the front of the summary.
AuthorsPartFirst(l, changes) ==
    [l EXCEPT !.updateParts =
        <<":bust_in_silhouette: **New authors added:** " \o join(newAuthors(changes), ", ")>> \o @]

\* updateParts.push(`New authors added: ...`)
AuthorsPart(l, changes) ==
    [l EXCEPT !.updateParts =
        Append(@, ":bust_in_silhouette: **New authors added:** " \o join(newAuthors(changes), ", "))]

\* updateDiscussion from the title change to its next await.
FromTitle(l, rfdLink, changes) ==
    Bind(IF changes.title = <<>> THEN l.updateParts
         ELSE Append(l.updateParts,
                     ":memo: **Title changed:** \"" \o changes.title[1].old
                         \o "\" -> \"" \o changes.title[1].new \o "\""), LAMBDA titled :
    Bind(IF changes.content
         THEN Append(titled, ":page_facing_up: **Content updated** - "
                                 \o "[View the latest version](" \o rfdLink \o ")")
         ELSE titled, LAMBDA contented :
    Bind([l EXCEPT !.updateParts = contented], LAMBDA l1 :
        IF Len(newAuthors(changes)) > 0
        THEN IF l.discussionParent # "" THEN Suspend("ud_parent", l1)
             ELSE FromTags(AuthorsPart(l1, changes), changes)
        ELSE FromTags(l1, changes))))

\* The loop of addAuthorsToDiscussion up to its next await: tokens that are
\* empty, and tokens nobody can be looked up for, are passed over.
RECURSIVE AuthorLoop(_)
AuthorLoop(l) ==
    IF l.todo = <<>> THEN Suspend("aa_return", l)
    ELSE Bind([l EXCEPT !.todo = Tail(l.todo), !.user = ""], LAMBDA rest :
         Bind(trim(Head(l.todo)), LAMBDA trimmedInput :
         Bind(DerivedEmail(trimmedInput), LAMBDA email :
         Bind(ResolveAmongMembers(Members, trimmedInput), LAMBDA user :
             IF Head(l.todo) = "" \/ trimmedInput = "" THEN AuthorLoop(rest)
             ELSE IF user # <<>> THEN Suspend("aa_add", [rest EXCEPT !.user = user[1].username])
             ELSE IF ~Contains(email, "@")
                  THEN Suspend("aa_lookup", [rest EXCEPT !.user = trimmedInput])
             ELSE AuthorLoop(rest)))))

\* The caller of addAuthorsToDiscussion after it returned.
AfterAuthors(l, content) ==
    IF l.manager = "createDiscussion" THEN Suspend("cd_post", l)
    ELSE FromTags(AuthorsPart(l, content.changes[1]), content.changes[1])

\* The loop, and the return to the caller when it is over.
NextAuthor(l, content) ==
    Bind(AuthorLoop(l), LAMBDA k : IF k.pc = "aa_return" THEN AfterAuthors(k.loc, content) ELSE k)

\* ----------------------------------------------------------- WebhookEndpoint
\* What a collaborator's rejected promise carries.
CollaboratorError == "collaborator call failed"

\* manager.createDiscussion is entered: its first await is the parent lookup.
StartCreate(l) == Suspend("cd_parent", [l EXCEPT !.manager = "createDiscussion"])

\* handleUpdated from "Update the payload's discussion URL" on, and
\* updateDiscussion up to its first await.
StartUpdate(l, content) ==
    Bind(extractRoomIdFromUrl(l.discussionUrl), LAMBDA roomId :
        IF content.changes = <<>>
        THEN Return(jsonResponse([success |-> TRUE, message |-> "No changes to process"]), l)
        ELSE IF roomId = ""
             THEN Return(Caught("Could not extract room ID from URL: " \o l.discussionUrl), l)
        ELSE Suspend("ud_get", [l EXCEPT !.manager = "updateDiscussion", !.roomId = roomId]))

\* A mutation of handleCreated: the record's own reference is not looked at.
handleCreatedUnchecked(l, content) == Suspend("hc_get", l)

\* handleCreated up to its first await.
handleCreated(l, content) ==
    LET discussion == content.rfd[1].discussion
    IN  IF discussion # ""
        THEN Return(jsonResponse([success |-> TRUE, message |-> "Discussion already exists",
                                  discussion |-> [id |-> endpointExtractRoomIdFromUrl(discussion),
                                                  url |-> discussion]]), l)
        ELSE Suspend("hc_get", l)

\* A mutation of handleUpdated: the record's own reference is not used, the
\* store is asked.
handleUpdatedFromStore(l, content) == Suspend("hu_get", l)

\* handleUpdated up to its first await.
handleUpdated(l, content) ==
    LET discussionUrl == content.rfd[1].discussion
    IN  IF discussionUrl = "" THEN Suspend("hu_get", l)
        ELSE StartUpdate([l EXCEPT !.discussionUrl = discussionUrl], content)

\* The site URL post() works with: the override when it is set, else the
\* server's Site_Url, or the fallback when that read throws.
SiteUrl(siteUrlOverride) ==
    IF siteUrlOverride # "" THEN siteUrlOverride
    ELSE IF serverSettings # <<>> THEN serverSettings[1]
    ELSE FallbackSiteUrl

\* A mutation of post(): an event that is not rfd.updated is handled as
\* rfd.created.
postDefaultCreates(request) ==
    LET webhookSecret == settings.webhook_secret
        siteUrl == SiteUrl(settings.site_url)
        parentChannel == settings.parent_channel
        prefix == IF settings.prefix = "" THEN "RFD" ELSE settings.prefix
        payload == request.content
        verified == verifySignature(cryptoModule, JSONstringify(payload), request.signature,
                                    webhookSecret)
        l == [NoLocals EXCEPT !.siteUrl = siteUrl, !.prefix = prefix,
                              !.parentChannel = parentChannel]
    IN  IF webhookSecret = ""
        THEN Return(errorResponse("INTERNAL_SERVER_ERROR", "Webhook secret not configured"),
                    NoLocals)
        ELSE IF parentChannel = ""
        THEN Return(errorResponse("INTERNAL_SERVER_ERROR", "Parent channel not configured"),
                    NoLocals)
        ELSE IF verified.throws THEN Return(Caught(verified.message), NoLocals)
        ELSE IF ~verified.value
        THEN Return(errorResponse("UNAUTHORIZED", "Invalid signature"), NoLocals)
        ELSE IF payload.event = "" \/ payload.rfd = <<>>
        THEN Return(errorResponse("BAD_REQUEST", "Invalid payload"), NoLocals)
        ELSE IF payload.event = "rfd.created" THEN handleCreated(l, payload)
        ELSE IF payload.event = "rfd.updated" THEN handleUpdated(l, payload)
        ELSE handleCreated(l, payload)

\* A mutation of post(): the settings are used without the test that they
\* are set.
postWithoutSettingsCheck(request) ==
    LET webhookSecret == settings.webhook_secret
        siteUrl == SiteUrl(settings.site_url)
        parentChannel == settings.parent_channel
        prefix == IF settings.prefix = "" THEN "RFD" ELSE settings.prefix
        payload == request.content
        verified == verifySignature(cryptoModule, JSONstringify(payload), request.signature,
                                    webhookSecret)
        l == [NoLocals EXCEPT !.siteUrl = siteUrl, !.prefix = prefix,
                              !.parentChannel = parentChannel]
    IN  IF verified.throws THEN Return(Caught(verified.message), NoLocals)
        ELSE IF ~verified.value
        THEN Return(errorResponse("UNAUTHORIZED", "Invalid signature"), NoLocals)
        ELSE IF payload.event = "" \/ payload.rfd = <<>>
        THEN Return(errorResponse("BAD_REQUEST", "Invalid payload"), NoLocals)
        ELSE IF payload.event = "rfd.created" THEN handleCreated(l, payload)
        ELSE IF payload.event = "rfd.updated" THEN handleUpdated(l, payload)
        ELSE Return(errorResponse("BAD_REQUEST", "Unknown event type: " \o payload.event),
                    NoLocals)

\* post() up to the first await of the handler it dispatches to.
post(request) ==
    LET webhookSecret == settings.webhook_secret
        siteUrl == SiteUrl(settings.site_url)
        parentChannel == settings.parent_channel
        prefix == IF settings.prefix = "" THEN "RFD" ELSE settings.prefix
        payload == request.content
        verified == verifySignature(cryptoModule, JSONstringify(payload), request.signature,
                                    webhookSecret)
        l == [NoLocals EXCEPT !.siteUrl = siteUrl, !.prefix = prefix,
                              !.parentChannel = parentChannel]
    IN  IF webhookSecret = ""
        THEN Return(errorResponse("INTERNAL_SERVER_ERROR", "Webhook secret not configured"),
                    NoLocals)
        ELSE IF parentChannel = ""
        THEN Return(errorResponse("INTERNAL_SERVER_ERROR", "Parent channel not configured"),
                    NoLocals)
        ELSE IF verified.throws THEN Return(Caught(verified.message), NoLocals)
        ELSE IF ~verified.value
        THEN Return(errorResponse("UNAUTHORIZED", "Invalid signature"), NoLocals)
        ELSE IF payload.event = "" \/ payload.rfd = <<>>
        THEN Return(errorResponse("BAD_REQUEST", "Invalid payload"), NoLocals)
        ELSE IF payload.event = "rfd.created" THEN handleCreated(l, payload)
        ELSE IF payload.event = "rfd.updated" THEN handleUpdated(l, payload)
        ELSE Return(errorResponse("BAD_REQUEST", "Unknown event type: " \o payload.event),
                    NoLocals)

\* Delivery d arrives with one of `requests`; deliveries are numbered in the
\* order of their arrival.
Arrive(d, requests) ==
    /\ pc[d] = "idle"
    /\ \A e \in Deliveries : e < d => pc[e] # "idle"
    /\ \E request \in requests :
          /\ req' = [req EXCEPT ![d] = request]
          /\ Continue(d, post(request))
    /\ UNCHANGED <<cryptoModule, settings, store, rooms, serverSettings, now, out, faults, cmp,
                   call>>

\* const existingDiscussion = await DiscussionStore.getDiscussion(...), in
\* handleCreated.
HandleCreatedGet(d) ==
    /\ pc[d] = "hc_get"
    /\ \/ /\ Fails(d, "getDiscussion")
          /\ Continue(d, Return(Caught(CollaboratorError), loc[d]))
       \/ /\ Calls(d, [Called(d, "getDiscussion") EXCEPT
                           !.existing = getDiscussion(store, req[d].content.rfd[1].id)])
          /\ LET existingDiscussion == getDiscussion(store, req[d].content.rfd[1].id)
             IN  IF existingDiscussion # <<>>
                 THEN Continue(d, Return(jsonResponse(
                          [success |-> TRUE,
                           message |-> "Discussion already exists (from persistence)",
                           discussion |-> [id |-> existingDiscussion[1].roomId,
                                           url |-> existingDiscussion[1].roomUrl]]), loc[d]))
                 ELSE Continue(d, StartCreate(loc[d]))
    /\ UNCHANGED Untouched

\* A mutation of handleUpdated: the test for missing changes comes before the
\* branch that creates a discussion.
HandleUpdatedGetChangesFirst(d) ==
    /\ pc[d] = "hu_get"
    /\ \/ /\ Fails(d, "getDiscussion")
          /\ Continue(d, Return(Caught(CollaboratorError), loc[d]))
       \/ /\ Calls(d, [Called(d, "getDiscussion") EXCEPT
                           !.existing = getDiscussion(store, req[d].content.rfd[1].id)])
          /\ LET existingDiscussion == getDiscussion(store, req[d].content.rfd[1].id)
                 discussionUrl == IF existingDiscussion # <<>>
                                  THEN existingDiscussion[1].roomUrl ELSE ""
             IN  IF req[d].content.changes = <<>>
                 THEN Continue(d, Return(jsonResponse([success |-> TRUE,
                                            message |-> "No changes to process"]), loc[d]))
                 ELSE IF discussionUrl = "" THEN Continue(d, StartCreate(loc[d]))
                 ELSE Continue(d, StartUpdate([loc[d] EXCEPT !.discussionUrl = discussionUrl],
                                              req[d].content))
    /\ UNCHANGED Untouched

\* const existingDiscussion = await DiscussionStore.getDiscussion(...), in
\* handleUpdated.
HandleUpdatedGet(d) ==
    /\ pc[d] = "hu_get"
    /\ \/ /\ Fails(d, "getDiscussion")
          /\ Continue(d, Return(Caught(CollaboratorError), loc[d]))
       \/ /\ Calls(d, [Called(d, "getDiscussion") EXCEPT
                           !.existing = getDiscussion(store, req[d].content.rfd[1].id)])
          /\ LET existingDiscussion == getDiscussion(store, req[d].content.rfd[1].id)
                 discussionUrl == IF existingDiscussion # <<>>
                                  THEN existingDiscussion[1].roomUrl ELSE ""
             IN  IF discussionUrl = "" THEN Continue(d, StartCreate(loc[d]))
                 ELSE Continue(d, StartUpdate([loc[d] EXCEPT !.discussionUrl = discussionUrl],
                                              req[d].content))
    /\ UNCHANGED Untouched

\* -------------------------------------------------------- DiscussionManager
rfdOf(d) == req[d].content.rfd[1]

\* const parentRoom = await this.read.getRoomReader().getByName(parentChannel)
GetParentRoom(d) ==
    /\ pc[d] = "cd_parent"
    /\ \/ /\ Fails(d, "getByName")
          /\ Continue(d, Return(Caught(CollaboratorError), loc[d]))
       \/ /\ Fails(d, "getByName")
          /\ Continue(d, Return(Caught("Parent channel '" \o loc[d].parentChannel
                                           \o "' not found"), loc[d]))
       \/ /\ Calls(d, Called(d, "getByName"))
          /\ Continue(d, Suspend("cd_user", [loc[d] EXCEPT !.discussionParent = ParentRoomId]))
    /\ UNCHANGED Untouched

\* const appUser = await this.read.getUserReader().getAppUser(), in
\* createDiscussion
GetAppUser(d) ==
    /\ pc[d] = "cd_user"
    /\ \/ /\ Fails(d, "getAppUser")
          /\ Continue(d, Return(Caught(CollaboratorError), loc[d]))
       \/ /\ Fails(d, "getAppUser")
          /\ Continue(d, Return(Caught("App user not found"), loc[d]))
       \/ /\ Calls(d, Called(d, "getAppUser"))
          /\ Continue(d, Suspend("cd_finish", loc[d]))
    /\ UNCHANGED Untouched

\* The id the server gives the next room it creates.
NewRoomId == "ROOM" \o ToString(Cardinality(rooms))

\* const discussionId = await this.modify.getCreator().finish(discussionBuilder)
FinishDiscussion(d) ==
    /\ pc[d] = "cd_finish"
    /\ \/ /\ Fails(d, "startDiscussion")
          /\ Continue(d, Return(Caught(CollaboratorError), loc[d]))
          /\ UNCHANGED rooms
       \/ /\ Fails(d, "startDiscussion")
          /\ Continue(d, Return(Caught("Failed to create discussion"), loc[d]))
          /\ UNCHANGED rooms
       \/ /\ Calls(d, [Called(d, "startDiscussion") EXCEPT
                                           !.created = NewRoomId])
          /\ rooms' = rooms \cup {[id |-> NewRoomId, parentRoom |-> loc[d].discussionParent,
                                   displayName |-> discussionName(loc[d].prefix, rfdOf(d))]}
          /\ Continue(d, Suspend("cd_get", [loc[d] EXCEPT !.roomId = NewRoomId]))
    /\ UNCHANGED <<cryptoModule, settings, store, serverSettings, now, req, cmp, call>>

\* const discussion = await this.read.getRoomReader().getById(discussionId)
GetCreatedRoom(d) ==
    /\ pc[d] = "cd_get"
    /\ \/ /\ Fails(d, "getById")
          /\ Continue(d, Return(Caught(CollaboratorError), loc[d]))
       \/ /\ Fails(d, "getById")
          /\ Continue(d, Return(Caught("Discussion created but could not be retrieved"),
                                loc[d]))
       \/ /\ Calls(d, Called(d, "getById"))
          /\ Continue(d, Suspend("cd_desc", loc[d]))
    /\ UNCHANGED Untouched

\* setRoomDescription's caller after it returned: addAuthorsToDiscussion is
\* entered in createDiscussion, the status line is pushed in updateDiscussion.
AfterDescription(l, content) ==
    IF l.manager = "createDiscussion"
    THEN Suspend("aa_user", [l EXCEPT !.todo = content.rfd[1].authors])
    ELSE LET state == content.changes[1].state[1]
         IN  FromTitle([l EXCEPT !.updateParts =
                           Append(@, ":bar_chart: **Status changed:** "
                                         \o STATE_DESCRIPTIONS(state.old) \o " -> "
                                         \o STATE_DESCRIPTIONS(state.new))],
                       content.link, content.changes[1])

\* await this.setRoomDescription(discussion, fullDescription, appUser): what
\* the updater throws is caught and logged.
SetRoomDescription(d) ==
    /\ pc[d] \in {"cd_desc", "ud_desc"}
    /\ \/ Fails(d, "setRoomDescription")
       \/ Calls(d, [Called(d, "setRoomDescription") EXCEPT
                     !.description = <<fullDescription(rfdOf(d), req[d].content.link)>>])
    /\ Continue(d, AfterDescription(loc[d], req[d].content))
    /\ UNCHANGED Untouched

\* const appUser = await this.read.getUserReader().getAppUser(), in
\* addAuthorsToDiscussion: without an app user it returns at once.
AddAuthorsGetAppUser(d) ==
    /\ pc[d] = "aa_user"
    /\ \/ /\ Fails(d, "addAuthors.getAppUser")
          /\ Continue(d, Return(Caught(CollaboratorError), loc[d]))
       \/ /\ Fails(d, "addAuthors.getAppUser")
          /\ Continue(d, AfterAuthors([loc[d] EXCEPT !.todo = <<>>], req[d].content))
       \/ /\ Calls(d, Called(d, "addAuthors.getAppUser"))
          /\ Continue(d, Suspend("aa_members", loc[d]))
    /\ UNCHANGED Untouched

\* const members = await this.read.getRoomReader().getMembers(parentRoom.id)
GetMembers(d) ==
    /\ pc[d] = "aa_members"
    /\ \/ /\ Fails(d, "getMembers")
          /\ Continue(d, Return(Caught(CollaboratorError), loc[d]))
       \/ /\ Calls(d, Called(d, "getMembers"))
          /\ Continue(d, NextAuthor(loc[d], req[d].content))
    /\ UNCHANGED Untouched

\* user = await this.read.getUserReader().getByUsername(trimmedInput), in its
\* try block
GetByUsername(d) ==
    /\ pc[d] = "aa_lookup"
    /\ \/ /\ Fails(d, "getByUsername")
          /\ Continue(d, NextAuthor(loc[d], req[d].content))
       \/ /\ Calls(d, Called(d, "getByUsername"))
          /\ IF loc[d].user \in OtherUsers THEN Continue(d, Suspend("aa_add", loc[d]))
             ELSE Continue(d, NextAuthor(loc[d], req[d].content))
    /\ UNCHANGED Untouched

\* updater.addMemberToBeAddedByUsername(user.username) and its finish, in
\* their try block
AddMember(d) ==
    /\ pc[d] = "aa_add"
    /\ \/ Fails(d, "addMember")
       \/ Calls(d, [Called(d, "addMember") EXCEPT
                                        !.added = @ \cup {loc[d].user}])
    /\ Continue(d, NextAuthor(loc[d], req[d].content))
    /\ UNCHANGED Untouched

\* await this.postMessage(discussion, appUser, text): what finish throws is
\* not caught here.  createDiscussion then builds the deep link and returns to
\* the handler, which stores it; updateDiscussion returns to handleUpdated.
PostMessage(d) ==
    /\ pc[d] \in {"cd_post", "ud_post"}
    /\ \/ /\ Fails(d, "postMessage")
          /\ Continue(d, Return(Caught(CollaboratorError), loc[d]))
       \/ /\ pc[d] = "cd_post"
          /\ Calls(d, [Called(d, "postMessage") EXCEPT !.message =
                        <<[room |-> loc[d].roomId,
                           text |-> InitialMessage(loc[d].prefix, rfdOf(d),
                                                   req[d].content.link)]>>])
          /\ Continue(d, Suspend("put", [loc[d] EXCEPT !.discussionUrl =
                            buildDeepLink(loc[d].siteUrl, "group/" \o loc[d].roomId)]))
       \/ /\ pc[d] = "ud_post"
          /\ Calls(d, [Called(d, "postMessage") EXCEPT !.message =
                        <<[room |-> loc[d].roomId,
                           text |-> ":arrows_counterclockwise: **ADR Updated**\n\n"
                                        \o join(loc[d].updateParts, "\n\n")]>>])
          /\ Continue(d, Return(jsonResponse([success |-> TRUE]), loc[d]))
    /\ UNCHANGED Untouched

\* A mutation of storeDiscussion: the record names a room that was there
\* before.
storeForeignRoom(records, rfdId, roomId, roomUrl, t) ==
    updateByAssociation(records, Association(rfdId),
                        StoredDiscussion(rfdId, ForeignRoom.id, roomUrl, t))

\* A mutation of storeDiscussion: it writes nothing.
storeNothing(records, rfdId, roomId, roomUrl, t) == records

\* The store write of storeDiscussion, on the records given.
storeDiscussion(records, rfdId, roomId, roomUrl, t) ==
    updateByAssociation(records, Association(rfdId), StoredDiscussion(rfdId, roomId, roomUrl, t))

\* await DiscussionStore.storeDiscussion(persistence, rfdId, discussion.id,
\* discussion.url), and the handler's response after it
StoreDiscussion(d) ==
    /\ pc[d] = "put"
    /\ \/ /\ Fails(d, "storeDiscussion")
          /\ Continue(d, Return(Caught(CollaboratorError), loc[d]))
          /\ UNCHANGED <<store, now>>
       \/ \E t \in Times :
            /\ t >= now
            /\ now' = t
            /\ store' = storeDiscussion(store, rfdOf(d).id, loc[d].roomId,
                                        loc[d].discussionUrl, t)
            /\ Calls(d, [Called(d, "storeDiscussion") EXCEPT !.stored =
                          <<StoredDiscussion(rfdOf(d).id, loc[d].roomId,
                                             loc[d].discussionUrl, t)>>])
            /\ Continue(d, Return(jsonResponse(
                   [success |-> TRUE,
                    discussion |-> [id |-> loc[d].roomId, url |-> loc[d].discussionUrl]]),
                   loc[d]))
    /\ UNCHANGED <<cryptoModule, settings, rooms, serverSettings, req, cmp, call>>

\* getRoomReader().getById(id): <<room>>, or <<>> when the server has no such
\* room.
getById(id) ==
    IF \E room \in rooms : room.id = id THEN <<CHOOSE room \in rooms : room.id = id>> ELSE <<>>

\* const discussion = await this.read.getRoomReader().getById(roomId), in
\* updateDiscussion
UpdateGetRoom(d) ==
    /\ pc[d] = "ud_get"
    /\ \/ /\ Fails(d, "getById")
          /\ Continue(d, Return(Caught(CollaboratorError), loc[d]))
       \/ /\ getById(loc[d].roomId) = <<>>
          /\ Calls(d, Failed(d, "getById"))
          /\ Continue(d, Return(Caught("Discussion room with ID '" \o loc[d].roomId
                                           \o "' not found"), loc[d]))
       \/ /\ getById(loc[d].roomId) # <<>>
          /\ Calls(d, Called(d, "getById"))
          /\ Continue(d, Suspend("ud_user", [loc[d] EXCEPT !.discussionParent =
                                                getById(loc[d].roomId)[1].parentRoom]))
    /\ UNCHANGED Untouched

\* const appUser = await this.read.getUserReader().getAppUser(), in
\* updateDiscussion, and the state change after it
UpdateGetAppUser(d) ==
    /\ pc[d] = "ud_user"
    /\ \/ /\ Fails(d, "getAppUser")
          /\ Continue(d, Return(Caught(CollaboratorError), loc[d]))
       \/ /\ Fails(d, "getAppUser")
          /\ Continue(d, Return(Caught("App user not found"), loc[d]))
       \/ /\ Calls(d, Called(d, "getAppUser"))
          /\ IF req[d].content.changes[1].state # <<>>
             THEN Continue(d, Suspend("ud_desc", loc[d]))
             ELSE Continue(d, FromTitle(loc[d], req[d].content.link, req[d].content.changes[1]))
    /\ UNCHANGED Untouched

\* await this.read.getRoomReader().getById(discussion.parentRoom.id): with a
\* parent room the new authors are added, without one they are only reported.
UpdateGetParentRoom(d) ==
    /\ pc[d] = "ud_parent"
    /\ \/ /\ Fails(d, "getParentRoom")
          /\ Continue(d, Return(Caught(CollaboratorError), loc[d]))
       \/ /\ Fails(d, "getParentRoom")
          /\ Continue(d, FromTags(AuthorsPart(loc[d], req[d].content.changes[1]),
                                  req[d].content.changes[1]))
       \/ /\ Calls(d, Called(d, "getParentRoom"))
          /\ Continue(d, Suspend("aa_user", [loc[d] EXCEPT !.todo =
                                                newAuthors(req[d].content.changes[1])]))
    /\ UNCHANGED Untouched

\* ------------------------------------------------------------ specifications
\* One await of delivery d resolves.
Step(d) ==
    \/ HandleCreatedGet(d) \/ HandleUpdatedGet(d)
    \/ GetParentRoom(d) \/ GetAppUser(d) \/ FinishDiscussion(d) \/ GetCreatedRoom(d)
    \/ SetRoomDescription(d) \/ AddAuthorsGetAppUser(d) \/ GetMembers(d)
    \/ GetByUsername(d) \/ AddMember(d) \/ PostMessage(d) \/ StoreDiscussion(d)
    \/ UpdateGetRoom(d) \/ UpdateGetAppUser(d) \/ UpdateGetParentRoom(d)

\* The deliveries that race: those that carry no discussion reference, and so
\* take the store for their guide.
RaceRequests ==
    { r \in Requests : /\ r.signature = WellFormedSignature
                       /\ r.content.rfd # <<>>
                       /\ r.content.rfd[1].discussion = ""
                       /\ \/ r.content.event = "rfd.created"
                          \/ r.content.changes = <<AllChanges>> }

\* A delivery arrives, whatever the other deliveries are doing.
Post(d) == Arrive(d, RaceRequests)

\* Deliveries arrive at any time and their handlers interleave at every await.
Next == \E d \in Deliveries : Post(d) \/ Step(d)

Spec == Init /\ [][Next]_vars

Quiescent == \A d \in Deliveries : pc[d] \in {"idle", "done"}

\* A delivery arrives after every earlier one was answered.
PostSeq(d) == Quiescent /\ Arrive(d, Requests)

NextSeq == \E d \in Deliveries : PostSeq(d) \/ Step(d)

\* The caller sends one delivery at a time, a retry included.
SpecSeq == Init /\ [][NextSeq]_vars

\* The same, with what the runtime guarantees: the promise a handler awaits
\* settles, resolved or rejected, and the handler is then resumed.
SpecLive == SpecSeq /\ \A d \in Deliveries : WF_vars(Step(d))

\* ------------------------------------------------------- created, then updated
\* ChangeSets of every shape: each field absent or populated, the authors and
\* the tags also populated with nothing new in them.
UpdateChangeSets ==
    { Changes(state, title, content, authors, tags) :
        state \in {NoField, <<[old |-> "ideation", new |-> "discussion"]>>},
        title \in {NoField, <<[old |-> "Caching", new |-> "Caching layer"]>>},
        content \in BOOLEAN,
        authors \in {NoField,
                     <<[old |-> <<"alice@x.com">>, new |-> <<"alice@x.com", "carol">>]>>,
                     <<[old |-> <<"alice@x.com">>, new |-> <<"alice@x.com">>]>>},
        tags \in {NoField,
                  <<[old |-> <<"a", "b">>, new |-> <<"b", "c">>]>>,
                  <<[old |-> <<"a">>, new |-> <<"a">>]>>} }

\* The first delivery reports RFD 0042 created; the deliveries after it report
\* it updated, with the room of the store or with an existing group for its
\* reference.
UpdateRequests(d) ==
    IF d = 1
    THEN { [content |-> Payload("rfd.created", <<Rfd("0042", "")>>, "0042", <<>>),
            signature |-> WellFormedSignature] }
    ELSE { [content |-> Payload("rfd.updated", <<Rfd("0042", ref)>>, "0042", <<ch>>),
            signature |-> WellFormedSignature] :
              ref \in {"", "https://chat.example.com/group/GRP1"}, ch \in UpdateChangeSets }

\* The app is configured and the build resolves '../lib/crypto' to the module
\* that lets the deliveries through.
InitUpdate ==
    /\ Init
    /\ cryptoModule = "lib/crypto.ts"
    /\ settings.webhook_secret # "" /\ settings.parent_channel # ""
    /\ settings.site_url # ""

PostUpdate(d) == Quiescent /\ Arrive(d, UpdateRequests(d))

NextUpdate == \E d \in Deliveries : PostUpdate(d) \/ Step(d)

\* An RFD is created and then updated, one delivery at a time.
SpecUpdate == InitUpdate /\ [][NextUpdate]_vars

\* --------------------------------------------- authors and tags, old and new
\* Author tokens of every kind: the e-mail of a member of the parent room in
\* another case, alone and after a name; a member's username in another case;
\* the username of a user outside the room; a name and an e-mail nobody has.
AuthorTokens ==
    {"ALICE@X.COM", "Al <alice@x.com>", "Bob", "carol", "dave", "dave@x.com"}

AuthorChanges ==
    { <<[old |-> <<>>, new |-> <<t>>]>> : t \in AuthorTokens }
    \cup { NoField,
           <<[old |-> <<"alice@x.com">>, new |-> <<"alice@x.com", "carol">>]>>,
           <<[old |-> <<"alice@x.com">>, new |-> <<"alice@x.com">>]>>,
           <<[old |-> <<"alice@x.com", "bob@x.com">>, new |-> <<"Alice@x.com", "bob@x.com">>]>>,
           <<[old |-> <<"carol">>, new |-> <<"dave", "", "Bob", "carol ", " carol">>]>> }

TagChanges ==
    { NoField,
      <<[old |-> <<"a", "b">>, new |-> <<"b", "c">>]>>,
      <<[old |-> <<"a">>, new |-> <<"a">>]>>,
      <<[old |-> <<"a">>, new |-> <<"a", "d", "e">>]>>,
      <<[old |-> <<"a", "b", "A">>, new |-> <<"a">>]>> }

\* The first delivery reports RFD 0042 created; the deliveries after it report
\* its authors and tags changed.
DiffRequests(d) ==
    IF d = 1
    THEN { [content |-> Payload("rfd.created", <<Rfd("0042", "")>>, "0042", <<>>),
            signature |-> WellFormedSignature] }
    ELSE { [content |-> Payload("rfd.updated", <<Rfd("0042", ref)>>, "0042",
                                <<Changes(NoField, NoField, FALSE, authors, tags)>>),
            signature |-> WellFormedSignature] :
              ref \in {"", "https://chat.example.com/group/GRP1"},
              authors \in AuthorChanges, tags \in TagChanges }

PostDiff(d) == Quiescent /\ Arrive(d, DiffRequests(d))

NextDiff == \E d \in Deliveries : PostDiff(d) \/ Step(d)

\* An RFD is created, and then its authors and tags change.
SpecDiff == InitUpdate /\ [][NextDiff]_vars

\* ------------------------------------------------- created with a reference
\* References to a room in the forms the app knows: the direct link, alone and
\* with a query, and the go.rocket.chat deep link with the path's slash
\* encoded and plain.
RoomReferences ==
    LET Hosts == {"chat.example.com", "rc.example.org:3000"}
        RoomIds == {"GRP1", "ROOM1", "a-b_c.d~e"}
    IN  { "https://" \o h \o "/group/" \o r : h \in Hosts, r \in RoomIds }
        \cup { "https://" \o h \o "/group/" \o r \o "?msg=xyz" : h \in Hosts, r \in RoomIds }
        \cup { "https://go.rocket.chat/room?host=" \o h \o "&path=group%2F" \o r :
                  h \in Hosts, r \in RoomIds }
        \cup { "https://go.rocket.chat/room?host=" \o h \o "&path=group/" \o r :
                  h \in Hosts, r \in RoomIds }

\* rfd.created deliveries whose record already carries a reference.
ReferencedRequests ==
    { [content |-> Payload("rfd.created", <<Rfd("0042", ref)>>, "0042", <<>>),
       signature |-> WellFormedSignature] : ref \in RoomReferences }

PostReferenced(d) == Quiescent /\ Arrive(d, ReferencedRequests)

NextReferenced == \E d \in Deliveries : PostReferenced(d)

\* Records that have their discussion are reported created.
SpecReferenced == InitUpdate /\ [][NextReferenced]_vars

\* --------------------------------------------------------------- properties
Answered(d) == pc[d] = "done"

Succeeded(d) == Answered(d) /\ resp[d].status = "OK"

HasRecord(d) == pc[d] # "idle" /\ req[d].content.rfd # <<>>

RecordId(d) == req[d].content.rfd[1].id

\* Delivery d is a created or updated event whose record carries no
\* discussion reference.
Unreferenced(d) ==
    /\ HasRecord(d)
    /\ req[d].content.event \in {"rfd.created", "rfd.updated"}
    /\ req[d].content.rfd[1].discussion = ""

Configured == settings.webhook_secret # "" /\ settings.parent_channel # ""

\* Delivery d read the store and found no record of its RFD.
FoundNothing(d) ==
    "getDiscussion" \in out[d].calls \ out[d].failed /\ out[d].existing = <<>>

\* Delivery d completed the create path: its room-creation call and its store
\* write both succeeded.
Completed(d) == out[d].created # "" /\ out[d].stored # <<>>

\* The successful room-creation calls made for record r.
Creations(r) == { d \in Deliveries : HasRecord(d) /\ RecordId(d) = r /\ out[d].created # "" }

\* C1: two rfd.created deliveries for the same record, neither carrying a
\* reference and no record stored beforehand, never both complete the create
\* path: at most one of them makes a successful room-creation call and store
\* write, however their awaits interleave.
C1_AtMostOneCompletes ==
    \A d, e \in Deliveries :
        (/\ d # e
         /\ Unreferenced(d) /\ Unreferenced(e)
         /\ req[d].content.event = "rfd.created" /\ req[e].content.event = "rfd.created"
         /\ RecordId(d) = RecordId(e))
        => ~(Completed(d) /\ Completed(e))

\* C2: when the same rfd.created payload without a reference is delivered twice
\* in sequence and both deliveries succeed, the first finding no stored record,
\* then exactly one record is stored, exactly one room-creation call was made,
\* and the second delivery returns the first's {id, url} from the stored record
\* without entering createDiscussion.
C2_IdempotentCreate ==
    \A d, e \in Deliveries :
        (/\ d < e
         /\ Succeeded(d) /\ Succeeded(e)
         /\ Unreferenced(d) /\ req[d].content.event = "rfd.created"
         /\ req[e].content = req[d].content
         /\ FoundNothing(d))
        => /\ Len(readByAssociation(store, Association(RecordId(d)))) = 1
           /\ out[d].created # "" /\ out[e].created = ""
           /\ out[e].calls = {"getDiscussion"}
           /\ out[e].existing # <<>>
           /\ resp[e].content.discussion = resp[d].content.discussion
           /\ resp[e].content.discussion =
                 [id |-> getDiscussion(store, RecordId(d))[1].roomId,
                  url |-> getDiscussion(store, RecordId(d))[1].roomUrl]

\* A created payload was delivered twice in sequence and both were answered OK.
C2_Witness ==
    \E d, e \in Deliveries :
        /\ d < e
        /\ Succeeded(d) /\ Succeeded(e)
        /\ Unreferenced(d) /\ req[d].content.event = "rfd.created"
        /\ req[e].content = req[d].content
        /\ FoundNothing(d)
        /\ out[e].existing # <<>>

\* The deliveries that arrived for record r.
DeliveriesFor(r) == { d \in Deliveries : HasRecord(d) /\ RecordId(d) = r }

\* Every delivery that arrived for r carried no reference and succeeded.
AllSucceeded(r) ==
    /\ DeliveriesFor(r) # {}
    /\ \A d \in DeliveriesFor(r) : Unreferenced(d) /\ Succeeded(d)

First(r) == CHOOSE d \in DeliveriesFor(r) : \A e \in DeliveriesFor(r) : d <= e

\* C3: when created and updated deliveries for one record arrive one after
\* another in any order, none carrying a reference and all succeeding, exactly
\* one room is created for the record, by the first of them, and every later
\* one finds the stored mapping of that room and creates nothing.
C3_OneRoomInAnyOrder ==
    \A r \in RfdIds :
        AllSucceeded(r)
        => /\ Creations(r) = {First(r)}
           /\ \A d \in DeliveriesFor(r) \ {First(r)} :
                 /\ out[d].existing # <<>>
                 /\ out[d].existing[1].roomId = out[First(r)].created
                 /\ "startDiscussion" \notin out[d].calls

\* An updated delivery came first and created the room; the created delivery
\* that followed it found the mapping.
C3_Witness ==
    \E r \in RfdIds :
        /\ AllSucceeded(r)
        /\ Cardinality(DeliveriesFor(r)) >= 2
        /\ req[First(r)].content.event = "rfd.updated"
        /\ \E d \in DeliveriesFor(r) : req[d].content.event = "rfd.created"

\* C4: when deliveries for one record arrive one after another, none carrying
\* a reference, and a delivery that failed at some collaborator or store step
\* is delivered again, at most one room is ever created for the record.
C4_RetryCreatesNoSecondRoom ==
    \A r \in RfdIds :
        (\A d \in DeliveriesFor(r) : Unreferenced(d)) => Cardinality(Creations(r)) <= 1

\* C5: in every state, however storeDiscussion calls follow or interleave, the
\* store holds at most one record under the association of each record-id, and
\* what getDiscussion sees for r is nothing or a single record whose rfdId is r.
C5_OneRecordPerId ==
    \A r \in RfdIds :
        /\ Len(readByAssociation(store, Association(r))) <= 1
        /\ getDiscussion(store, r) # <<>> => getDiscussion(store, r)[1].rfdId = r

\* Two deliveries for one record both made their store write.
C5_Witness ==
    \E d, e \in Deliveries :
        /\ d # e
        /\ HasRecord(d) /\ HasRecord(e) /\ RecordId(d) = RecordId(e)
        /\ out[d].stored # <<>> /\ out[e].stored # <<>>
        /\ getDiscussion(store, RecordId(d)) # <<>>

\* C6: once a record exists for a record-id, no step changes or removes it:
\* its roomId, roomUrl and createdAt stay what they were first written as.
C6_RecordNeverRewritten ==
    [][\A r \in RfdIds :
          getDiscussion(store, r) # <<>> => getDiscussion(store', r) = getDiscussion(store, r)]_vars

\* C7: with the secret and the parent channel configured, a delivery whose
\* signature header is missing, unprefixed or of the wrong length is answered
\* unauthorized, and no collaborator call and no store read or write is made
\* for it.
C7_BadSignatureUnauthorized ==
    \A d \in Deliveries :
        (Answered(d) /\ Configured /\ req[d].signature \in BadSignatures)
        => /\ resp[d] = errorResponse("UNAUTHORIZED", "Invalid signature")
           /\ out[d] = NoEffects

\* C8: verifySignature returns false for the body and secret of every
\* delivery whose signature is not prefixed "sha256=" or whose hex part is not
\* 64 characters long.
C8_VerifyReturnsFalse ==
    \A d \in Deliveries :
        (/\ pc[d] # "idle"
         /\ Configured
         /\ \/ ~startsWith(req[d].signature, "sha256=")
            \/ Len(slice(req[d].signature, 7)) # 64)
        => verifySignature(cryptoModule, JSONstringify(req[d].content), req[d].signature,
                           settings.webhook_secret) = Returns(FALSE)

\* The steps of createDiscussion after the room is created that the
\* description, membership and message work is made of: setting the
\* description, listing the parent room's members, adding an author, posting
\* the introductory message.
LaterSteps == {"setRoomDescription", "getMembers", "addMember", "postMessage"}

\* C9: a delivery that created its room and then saw only later steps fail
\* (description, members, adding an author, the introductory message) still
\* stores the mapping and is answered success with the room's {id, url}.
C9_LaterFailuresSwallowed ==
    \A d \in Deliveries :
        (/\ Answered(d)
         /\ out[d].created # ""
         /\ out[d].failed # {}
         /\ out[d].failed \subseteq LaterSteps)
        => /\ resp[d].status = "OK"
           /\ out[d].stored # <<>>
           /\ resp[d].content = [success |-> TRUE,
                                 discussion |-> [id |-> out[d].stored[1].roomId,
                                                 url |-> out[d].stored[1].roomUrl]]

\* Delivery d entered createDiscussion and the parent room or the app user
\* could not be resolved.
Unresolved(d) ==
    /\ Answered(d)
    /\ "getByName" \in out[d].calls
    /\ out[d].failed \cap {"getByName", "getAppUser"} # {}

\* C10: a delivery on the create path whose parent room or app user cannot be
\* resolved is answered with an error response; it creates no room, posts no
\* message and writes nothing to the store.
C10_UnresolvedIsFatal ==
    \A d \in Deliveries :
        Unresolved(d)
        => /\ resp[d].status = "INTERNAL_SERVER_ERROR"
           /\ resp[d].content.success = FALSE
           /\ out[d].created = ""
           /\ out[d].message = <<>>
           /\ out[d].stored = <<>>
           /\ out[d].calls \cap {"startDiscussion", "postMessage", "storeDiscussion"} = {}
           /\ \A r \in rooms : r.id # ForeignRoom.id =>
                 \E e \in Deliveries \ {d} : out[e].created = r.id

\* The parent room was not found, and the app user was not found.
C10_Witness ==
    \E d \in Deliveries :
        /\ Unresolved(d)
        /\ resp[d].content.error \in {"Parent channel 'rfds' not found", "App user not found"}

\* The signature check of post() let delivery d through.
Verified(d) ==
    verifySignature(cryptoModule, JSONstringify(req[d].content), req[d].signature,
                    settings.webhook_secret) = Returns(TRUE)

\* Delivery d reached its handler: the settings are there, the signature
\* check let it through, and it is the event asked for with a record.
Handled(d, event) ==
    /\ pc[d] # "idle"
    /\ Configured
    /\ Verified(d)
    /\ req[d].content.event = event
    /\ req[d].content.rfd # <<>>

\* The chat collaborator's calls, as the handlers name them.
CollaboratorCalls ==
    {"getByName", "getAppUser", "startDiscussion", "getById", "setRoomDescription",
     "addAuthors.getAppUser", "getMembers", "getByUsername", "addMember", "postMessage",
     "getParentRoom"}

\* C11: an rfd.updated delivery that has a discussion reference naming a
\* room, its own or the stored one, and a changes object with every field
\* absent makes no collaborator call and is answered success.
C11_NoOpUpdateCallsNothing ==
    \A d \in Deliveries :
        (/\ Answered(d)
         /\ Handled(d, "rfd.updated")
         /\ req[d].content.changes = <<EmptyChanges>>
         /\ \/ extractRoomIdFromUrl(req[d].content.rfd[1].discussion) # ""
            \/ out[d].existing # <<>>)
        => /\ out[d].calls \cap CollaboratorCalls = {}
           /\ resp[d].status = "OK"
           /\ resp[d].content.success = TRUE

Prefix == IF settings.prefix = "" THEN "RFD" ELSE settings.prefix

\* The calls every completed create path has made.
CreatePathCalls ==
    {"getDiscussion", "getByName", "getAppUser", "startDiscussion", "getById",
     "setRoomDescription", "addAuthors.getAppUser", "postMessage", "storeDiscussion"}

\* What the create path leaves behind for delivery d: a function of the
\* record, the link and the room created, not of the event or the changes.
CreateOutcome(d) ==
    LET rfd == req[d].content.rfd[1]
        link == req[d].content.link
    IN  /\ out[d].created # ""
        /\ CreatePathCalls \subseteq out[d].calls
        /\ "setRoomDescription" \notin out[d].failed
              => out[d].description = <<fullDescription(rfd, link)>>
        /\ out[d].failed = {} => out[d].added # {}
        /\ out[d].message = <<[room |-> out[d].created,
                               text |-> InitialMessage(Prefix, rfd, link)]>>
        /\ out[d].stored # <<>>
        /\ out[d].stored[1].rfdId = rfd.id
        /\ out[d].stored[1].roomId = out[d].created
        /\ resp[d].content = [success |-> TRUE,
                              discussion |-> [id |-> out[d].created,
                                              url |-> out[d].stored[1].roomUrl]]

\* C13: an rfd.updated delivery for a record without a reference and without
\* a stored record does what an rfd.created delivery for that record does:
\* when it succeeds it has created the room, set the description, added the
\* authors, posted the introductory message and no update message, stored the
\* mapping and returned {id, url}, whatever its changes are.
C13_UpdateWithoutDiscussionCreates ==
    \A d \in Deliveries :
        (Unreferenced(d) /\ Succeeded(d) /\ FoundNothing(d)) => CreateOutcome(d)

\* An update with every change populated, and one with no changes at all,
\* each created the discussion.
C13_Witness ==
    /\ \E d \in Deliveries :
          /\ Unreferenced(d) /\ Succeeded(d) /\ FoundNothing(d)
          /\ req[d].content.event = "rfd.updated" /\ req[d].content.changes = <<AllChanges>>
          /\ out[d].failed = {}
    /\ \E d \in Deliveries :
          /\ Unreferenced(d) /\ Succeeded(d) /\ FoundNothing(d)
          /\ req[d].content.event = "rfd.updated" /\ req[d].content.changes = <<>>

\* Delivery d is an rfd.updated whose record carries no reference, and its
\* read of the store found a record.
UpdatesStored(d) ==
    /\ HasRecord(d)
    /\ req[d].content.event = "rfd.updated"
    /\ req[d].content.rfd[1].discussion = ""
    /\ out[d].existing # <<>>

\* C14: an rfd.updated delivery without a reference of its own, for a record
\* the store has a mapping of, takes the stored roomUrl as its reference: it
\* creates no room and stores nothing, the update path it runs acts on the
\* room the stored record names, and with every change populated and no call
\* failing it posts its update message to that room.
C14_StoredReferenceIsUsed ==
    \A d \in Deliveries :
        UpdatesStored(d)
        => /\ out[d].created = ""
           /\ out[d].stored = <<>>
           /\ out[d].calls \cap {"getByName", "startDiscussion", "storeDiscussion"} = {}
           /\ (~Answered(d) /\ req[d].content.changes # <<>>)
                 => /\ loc[d].discussionUrl = out[d].existing[1].roomUrl
                    /\ loc[d].roomId = out[d].existing[1].roomId
           /\ out[d].message # <<>> => out[d].message[1].room = out[d].existing[1].roomId
           /\ (Answered(d) /\ out[d].failed = {})
                 => /\ resp[d].status = "OK"
                    /\ req[d].content.changes = <<AllChanges>> => out[d].message # <<>>

\* An update with every change populated posted to the room of the stored
\* record.
C14_Witness ==
    \E d \in Deliveries :
        /\ UpdatesStored(d)
        /\ Succeeded(d)
        /\ out[d].message # <<>>
        /\ out[d].message[1].room = out[d].existing[1].roomId

\* The payload of delivery d lacks its event or its record, or names an event
\* the endpoint does not handle.
Malformed(d) ==
    \/ req[d].content.event = ""
    \/ req[d].content.rfd = <<>>
    \/ req[d].content.event \notin {"rfd.created", "rfd.updated"}

\* C15: with the settings in place and the signature accepted, a delivery
\* whose payload lacks event or rfd, or whose event is neither rfd.created nor
\* rfd.updated, is answered bad-request at once; no collaborator call and no
\* store read or write is made for it, and neither the store nor the rooms
\* change when it arrives.
C15_MalformedIsBadRequest ==
    \A d \in Deliveries :
        (pc[d] # "idle" /\ Configured /\ Verified(d) /\ Malformed(d))
        => /\ Answered(d)
           /\ resp[d].status = "BAD_REQUEST"
           /\ resp[d].content.success = FALSE
           /\ resp[d].content.error # ""
           /\ out[d] = NoEffects
           /\ loc[d] = NoLocals

\* A payload with an event the endpoint does not know was rejected.
C15_Witness ==
    \E d \in Deliveries :
        /\ pc[d] # "idle" /\ Configured /\ Verified(d)
        /\ req[d].content.event = "rfd.deleted"
        /\ resp[d] = errorResponse("BAD_REQUEST", "Unknown event type: rfd.deleted")

\* C16: while the webhook secret or the parent channel is not set, every
\* delivery, whatever its signature and payload, is answered at once with an
\* internal error naming the missing setting; no call is made for it, and the
\* store and the rooms stay as they were.
C16_UnconfiguredIsInternalError ==
    ~Configured
    => /\ store = <<>>
       /\ rooms = {ForeignRoom}
       /\ \A d \in Deliveries :
             pc[d] # "idle"
             => /\ Answered(d)
                /\ resp[d] = errorResponse("INTERNAL_SERVER_ERROR",
                                IF settings.webhook_secret = ""
                                THEN "Webhook secret not configured"
                                ELSE "Parent channel not configured")
                /\ out[d] = NoEffects

\* Without a secret, a delivery with a well-formed signature and one with
\* none got the same answer.
C16_Witness ==
    /\ settings.webhook_secret = ""
    /\ \E d, e \in Deliveries :
          /\ Answered(d) /\ Answered(e)
          /\ req[d].signature = WellFormedSignature
          /\ req[e].signature = ""
          /\ resp[d] = resp[e]

\* The calls whose failure the manager may catch, log and pass over.
MayBeSwallowed ==
    {"setRoomDescription", "addAuthors.getAppUser", "getByUsername", "addMember",
     "getParentRoom"}

\* The response of delivery d is a success, or a failure with an error string
\* and the status of its class.
Definitive(d) ==
    LET r == resp[d]
        rejected == Configured /\ verifySignature(cryptoModule, JSONstringify(req[d].content),
                                      req[d].signature, settings.webhook_secret) = Returns(FALSE)
        malformed == Configured /\ Verified(d) /\ Malformed(d)
    IN  /\ \/ r.status = "OK" /\ r.content.success = TRUE
           \/ /\ r.status \in {"UNAUTHORIZED", "BAD_REQUEST", "INTERNAL_SERVER_ERROR"}
              /\ r.content = [success |-> FALSE, error |-> r.content.error]
              /\ r.content.error # ""
        /\ r.status = "UNAUTHORIZED" <=> rejected
        /\ r.status = "BAD_REQUEST" <=> malformed
        /\ ~(out[d].failed \subseteq MayBeSwallowed) => r.status = "INTERNAL_SERVER_ERROR"

Reference(d) == req[d].content.rfd[1].discussion

\* Delivery d went down the create path and made a room.
Replaced(d) ==
    /\ {"getByName", "startDiscussion"} \subseteq out[d].calls
    /\ out[d].created # ""

\* C18: with overwrite_invalid_discussion_url on, a delivery whose record
\* carries a reference that isValidDiscussionUrl rejects is not trusted: if
\* no call of it failed, it went down the create path and made a replacement
\* room.  With the option off, a delivery that carries a reference makes no
\* room.
C18_InvalidReferenceReplaced ==
    \A d \in Deliveries :
        (/\ Answered(d)
         /\ \/ Handled(d, "rfd.created")
            \/ Handled(d, "rfd.updated")
         /\ Reference(d) # ""
         /\ out[d].failed = {})
        => IF /\ settings.overwrite_invalid_discussion_url
              /\ ~isValidDiscussionUrl(Reference(d), SiteUrl(settings.site_url))
           THEN Replaced(d)
           ELSE ~settings.overwrite_invalid_discussion_url => out[d].created = ""


\* The URL the use_deep_links setting asks for, for a room of the site.
ConfiguredUrl(siteUrl, roomId) ==
    IF settings.use_deep_links THEN buildDeepLink(siteUrl, "group/" \o roomId)
    ELSE siteUrl \o "/group/" \o roomId

\* C19: the URL the create path stores and returns is the direct form
\* {siteUrl}/group/{roomId} when use_deep_links is off, and the go.rocket.chat
\* link with the site's host and the path group/{roomId}, both encoded, when
\* it is on.
C19_UrlFollowsDeepLinkSetting ==
    \A d \in Deliveries :
        (Answered(d) /\ Completed(d))
        => /\ out[d].stored[1].roomUrl
                = ConfiguredUrl(SiteUrl(settings.site_url), out[d].created)
           /\ resp[d].content.discussion.url = out[d].stored[1].roomUrl


\* C20: a call of timingSafeEqual on two strings of the same length reads
\* every character pair, one per position, whether the strings are equal or
\* differ and wherever they first differ; the loop is left only when its index
\* has reached the length, and the value returned is that of the function.
C20_ComparesEveryPosition ==
    /\ [](cmp.pc = "returned" /\ Len(cmp.a) = Len(cmp.b)
            => /\ cmp.comparisons = Len(cmp.a)
               /\ cmp.value = timingSafeEqual(cmp.a, cmp.b)
               /\ cmp.value = (cmp.a = cmp.b))
    /\ [][cmp.pc = "loop" /\ cmp'.pc = "returned" => cmp.i = Len(cmp.a)]_vars

C20_Witness ==
    /\ cmp.pc = "returned"
    /\ Len(cmp.a) = Len(cmp.b)
    /\ Len(cmp.a) >= 2
    /\ CharAt(cmp.a, 1) # CharAt(cmp.b, 1)
    /\ cmp.comparisons = Len(cmp.a)
    /\ cmp.value = FALSE


\* A call of fn has returned.
Returned(fn) == call.pc = "returned" /\ call.fn = fn

\* C21: sha256Bytes is total: for every input, the empty one included, the
\* call completes without an error and returns 32 bytes.
C21_Sha256IsTotal ==
    Returned("sha256Bytes") => ~call.result.throws /\ Len(call.result.value) = 32

\* The digest FIPS 180-4 gives for the empty message, in hexadecimal.
EmptyDigest == "e3b0c44298fc1c149afbf4c8996fb92427ae41e4649b934ca495991b7852b855"

\* C22: the digest of the empty byte sequence is the published one.
C22_Sha256OfEmpty ==
    (Returned("sha256Bytes") /\ call.args[1] = <<>>)
    => /\ ~call.result.throws
       /\ bytesToHex(call.result.value) = EmptyDigest


\* C23: extractRoomIdFromUrl returns the room id of a direct URL
\* https://<host>/group/<roomId>, with or without a query, and of a deep link
\* https://go.rocket.chat/room?host=<host>&path=group%2F<roomId> or
\* ...&path=group/<roomId>, decoded.
C23_ExtractsBothFormats ==
    Returned("extractRoomIdFromUrl") => call.result = call.of.roomId

C23_Witness ==
    /\ Returned("extractRoomIdFromUrl")
    /\ call.of.form = "deep"
    /\ call.of.roomId = "a b"
    /\ Contains(call.args[1], "group%2Fa%20b")
    /\ call.result = "a b"


\* C24: for a host and a room id of URL-safe characters, the room id
\* extracted from buildDeepLink("https://" + host, "group/" + roomId) is
\* roomId.
C24_DeepLinkRoundTrip ==
    Returned("buildDeepLink") => extractRoomIdFromUrl(call.result) = call.of.roomId

C24_Witness ==
    /\ Returned("buildDeepLink")
    /\ call.of = [host |-> "chat.example.com", roomId |-> "a-b_c.d~e"]
    /\ call.result = "https://go.rocket.chat/room?host=chat.example.com&path=group%2Fa-b_c.d~e"


C26_UrlLeadsToRoom ==
    /\ \A i \in 1..Len(store) :
          extractRoomIdFromUrl(store[i].data.roomUrl) = store[i].data.roomId
    /\ \A d \in Deliveries :
          (Answered(d) /\ Completed(d))
          => /\ resp[d].content.discussion.id = out[d].created
             /\ extractRoomIdFromUrl(resp[d].content.discussion.url) = out[d].created
             /\ \E room \in rooms : room.id = out[d].created

C26_Witness ==
    \E d, e \in Deliveries :
        /\ Answered(d) /\ Completed(d)
        /\ Succeeded(e) /\ Handled(e, "rfd.updated")
        /\ out[e].existing # <<>>
        /\ out[e].existing[1].roomUrl = out[d].stored[1].roomUrl
        /\ "getById" \in out[e].calls \ out[e].failed


\* Delivery d made a room for record r.
CreatedFor(d, r) == HasRecord(d) /\ RecordId(d) = r /\ out[d].created # ""

\* C27: a delivery writes the store only after its room-creation call has
\* succeeded, and it returns the {id, url} of the room it created only after
\* that write; so every record of the store is the record of an RFD for which
\* a delivery created a room, and names that room, which exists.
C27_CreateThenStoreThenRespond ==
    /\ [][\A d \in Deliveries :
            (out[d].stored = <<>> /\ out'[d].stored # <<>>)
            => /\ out[d].created # ""
               /\ out'[d].stored[1].roomId = out[d].created
               /\ ~Answered(d)]_vars
    /\ [](\A d \in Deliveries :
            (Succeeded(d) /\ out[d].created # "") => out[d].stored # <<>>)
    /\ [](\A i \in 1..Len(store) :
            \E d \in Deliveries :
                /\ CreatedFor(d, store[i].data.rfdId)
                /\ store[i].data.roomId = out[d].created
                /\ \E room \in rooms : room.id = out[d].created)

C27_Witness ==
    \E d, e \in Deliveries :
        /\ d # e
        /\ Answered(d) /\ Completed(d)
        /\ Answered(e) /\ out[e].created # "" /\ out[e].stored = <<>>
        /\ Len(store) = 1


\* Delivery d is an rfd.updated with a discussion reference to work with: its
\* record's own, or the one it read from the store.
Effective(d) ==
    /\ Handled(d, "rfd.updated")
    /\ \/ Reference(d) # ""
       \/ out[d].existing # <<>> /\ out[d].existing[1].roomUrl # ""

\* Delivery d is inside updateDiscussion.
Updating(d) == pc[d] \notin {"idle", "done"} /\ loc[d].manager = "updateDiscussion"

Range(array) == { array[i] : i \in 1..Len(array) }

\* The ChangeSet of delivery d.
ChangesOf(d) == req[d].content.changes[1]

\* The field a summary line reports, by the words the line begins with: state
\* 1, title 2, content 3, authors 4, tags 5.
SummaryMarkers ==
    << ":bar_chart: **Status changed:**", ":memo: **Title changed:**",
       ":page_facing_up: **Content updated**", ":bust_in_silhouette: **New authors added:**",
       ":label: **Tags changed:**" >>

FieldOf(line) ==
    IF \E k \in 1..5 : startsWith(line, SummaryMarkers[k])
    THEN CHOOSE k \in 1..5 : startsWith(line, SummaryMarkers[k])
    ELSE 0

\* The fields of a ChangeSet that have something to report: a populated state
\* or title, a changed content, authors with a new one among them, tags with
\* one added or removed.
ReportedFields(changes) ==
    { k \in 1..5 :
        \/ k = 1 /\ changes.state # NoField
        \/ k = 2 /\ changes.title # NoField
        \/ k = 3 /\ changes.content
        \/ k = 4 /\ changes.authors # NoField
                 /\ \E a \in Range(changes.authors[1].new) : a \notin Range(changes.authors[1].old)
        \/ k = 5 /\ changes.tags # NoField
                 /\ Range(changes.tags[1].new) # Range(changes.tags[1].old) }

\* Delivery d is adding the new authors for updateDiscussion.
AddingAuthors(d) ==
    Updating(d) /\ pc[d] \in {"ud_parent", "aa_user", "aa_members", "aa_lookup", "aa_add"}

\* Where the summary line of field k begins in the message delivery d posted,
\* 0 when the message has no such line.
LineAt(d, k) ==
    LET text == out[d].message[1].text
        hits == { i \in 1..Len(text) : StartsWithAt(text, SummaryMarkers[k], i) }
    IN  IF hits = {} THEN 0 ELSE CHOOSE i \in hits : \A j \in hits : i <= j

\* C29: whatever the ChangeSet, the summary of updateDiscussion holds one line
\* for each field with something to report, in the order state, title,
\* content, authors, tags; the description is set before any line is written,
\* the authors are added after the lines of state, title and content and
\* before those of authors and tags, and the message is the last effect: it
\* is posted once, after everything else, under the banner, with its lines in
\* that order, exactly when there is a line, and not at all when there is none.
C29_FieldsInOrderThenOneMessage ==
    /\ [](\A d \in Deliveries :
            Updating(d)
            => LET parts == loc[d].updateParts
                   fields == ReportedFields(ChangesOf(d))
               IN  /\ \A i \in 1..Len(parts) : FieldOf(parts[i]) \in fields
                   /\ \A i, j \in 1..Len(parts) : i < j => FieldOf(parts[i]) < FieldOf(parts[j])
                   /\ "postMessage" \notin out[d].calls
                   /\ pc[d] = "ud_desc" => parts = <<>> /\ 1 \in fields
                   /\ AddingAuthors(d)
                        => /\ 4 \in fields
                           /\ { FieldOf(parts[i]) : i \in 1..Len(parts) } = fields \cap {1, 2, 3}
                           /\ 1 \in fields => "setRoomDescription" \in out[d].calls
                   /\ pc[d] = "ud_post"
                        => /\ { FieldOf(parts[i]) : i \in 1..Len(parts) } = fields
                           /\ fields # {}
                           /\ 1 \in fields => "setRoomDescription" \in out[d].calls
                           /\ (4 \in fields /\ loc[d].discussionParent # "")
                                => "getParentRoom" \in out[d].calls)
    /\ [](\A d \in Deliveries :
            (Effective(d) /\ req[d].content.changes # <<>> /\ Answered(d))
            => LET fields == ReportedFields(ChangesOf(d))
               IN  /\ Len(out[d].message) <= 1
                   /\ Succeeded(d) => (out[d].message # <<>> <=> fields # {})
                   /\ fields = {} => "postMessage" \notin out[d].calls
                   /\ out[d].message # <<>>
                        => /\ startsWith(out[d].message[1].text,
                                         ":arrows_counterclockwise: **ADR Updated**\n\n")
                           /\ \A k \in 1..5 : LineAt(d, k) # 0 <=> k \in fields
                           /\ \A k, m \in fields : k < m => LineAt(d, k) < LineAt(d, m))
    /\ [][\A d \in Deliveries :
            (Effective(d) /\ "postMessage" \in out[d].calls)
            => /\ out'[d] = out[d]
               /\ pc'[d] = "done"]_vars

C29_Witness ==
    \E d \in Deliveries :
        /\ Effective(d) /\ Succeeded(d)
        /\ ReportedFields(ChangesOf(d)) = {1, 3, 4}
        /\ ChangesOf(d).tags # NoField
        /\ out[d].message # <<>>
        /\ out[d].added # {}
        /\ out[d].description # <<>>


\* The reference delivery d works with: its record's own, else the stored one.
EffectiveReference(d) ==
    IF Reference(d) # "" THEN Reference(d) ELSE out[d].existing[1].roomUrl

\* The reference of delivery d names no room, or a room that is not there.
Unresolvable(d) ==
    \/ extractRoomIdFromUrl(EffectiveReference(d)) = ""
    \/ getById(extractRoomIdFromUrl(EffectiveReference(d))) = <<>>

\* C30: an rfd.updated delivery whose reference yields no room identifier, or
\* the identifier of a room that does not exist, is answered with an error,
\* and has set no description, added no member, posted no message and written
\* no record.
C30_UnresolvableUpdateFails ==
    \A d \in Deliveries :
        (Effective(d) /\ Answered(d) /\ Unresolvable(d))
        => /\ resp[d].status # "OK"
           /\ resp[d].content.success = FALSE
           /\ out[d].description = <<>>
           /\ out[d].added = {}
           /\ out[d].message = <<>>
           /\ out[d].stored = <<>>


\* The side effects of an update whose failure the claim calls partial.
PartialSideEffects == {"setRoomDescription", "getMembers", "getByUsername", "addMember"}

\* C31: an update on an existing room in which only description-set, the
\* listing of the parent room's members, the lookup of an author or the adding
\* of a member failed is answered with success, after every field with
\* something to report got its line and the message was posted.
C31_PartialFailuresNotPropagated ==
    \A d \in Deliveries :
        (/\ Effective(d) /\ req[d].content.changes # <<>> /\ Answered(d)
         /\ out[d].failed # {} /\ out[d].failed \subseteq PartialSideEffects)
        => /\ Succeeded(d)
           /\ out[d].message # <<>>
           /\ \A k \in 1..5 : LineAt(d, k) # 0 <=> k \in ReportedFields(ChangesOf(d))


\* The author tokens of delivery d's ChangeSet that are in the new list and
\* not in the old one, the strings compared as they are.
AuthorDiff(d) ==
    IF ChangesOf(d).authors = NoField THEN {}
    ELSE Range(ChangesOf(d).authors[1].new) \ Range(ChangesOf(d).authors[1].old)

\* The members of the parent room, in the order getMembers lists them, that
\* satisfy Test.
FirstMember(Test(_)) ==
    LET hits == { i \in 1..Len(Members) : Test(Members[i]) }
    IN  IF hits = {} THEN {}
        ELSE {Members[CHOOSE i \in hits : \A j \in hits : i <= j].username}

\* The users an author token resolves to, none or one: a member by e-mail,
\* else a member by username, else, for a value without '@', the user of that
\* name outside the room.
ResolvesTo(token) ==
    LET derived == DerivedEmail(trim(token))
        byEmail == FirstMember(LAMBDA m : \E k \in 1..Len(m.emails) :
                                              toLowerCase(m.emails[k]) = derived)
        byUsername == FirstMember(LAMBDA m : toLowerCase(m.username) = derived)
    IN  IF trim(token) = "" THEN {}
        ELSE IF byEmail # {} THEN byEmail
        ELSE IF byUsername # {} THEN byUsername
        ELSE IF ~Contains(derived, "@") THEN {trim(token)} \cap OtherUsers
        ELSE {}

\* The calls addAuthorsToDiscussion makes, and the lookup before it.
MembershipCalls ==
    {"getParentRoom", "addAuthors.getAppUser", "getMembers", "getByUsername", "addMember"}

\* C32: in an update, members are added only for the author tokens that are
\* in the new list and not, as the same string, in the old one, and for all
\* of those that resolve when nothing fails and the discussion has a parent
\* room; when there is no such token nothing of the membership step is
\* called, nobody is added and the summary has no authors line.
C32_OnlyNewAuthorsAdded ==
    \A d \in Deliveries :
        (Effective(d) /\ req[d].content.changes # <<>>)
        => /\ out[d].added \subseteq UNION { ResolvesTo(t) : t \in AuthorDiff(d) }
           /\ (Succeeded(d) /\ out[d].failed = {} /\ "getParentRoom" \in out[d].calls)
                => out[d].added = UNION { ResolvesTo(t) : t \in AuthorDiff(d) }
           /\ AuthorDiff(d) = {}
                => /\ out[d].calls \cap MembershipCalls = {}
                   /\ out[d].added = {}
                   /\ Updating(d) => \A i \in 1..Len(loc[d].updateParts) :
                                         FieldOf(loc[d].updateParts[i]) # 4
                   /\ out[d].message # <<>> => LineAt(d, 4) = 0

C32_Witness ==
    \E d \in Deliveries :
        /\ Effective(d) /\ Succeeded(d)
        /\ ChangesOf(d).authors # NoField
        /\ Range(ChangesOf(d).authors[1].old) = {"alice@x.com", "bob@x.com"}
        /\ AuthorDiff(d) = {"Alice@x.com"}
        /\ out[d].added = {"alice"}


\* No member of the parent room has the token's derived value for an e-mail
\* or for a username, and the value holds no '@': the token is looked up by
\* username.
LookedUp(token) ==
    LET derived == DerivedEmail(trim(token))
    IN  /\ trim(token) # ""
        /\ FirstMember(LAMBDA m : \/ \E k \in 1..Len(m.emails) :
                                        toLowerCase(m.emails[k]) = derived
                                  \/ toLowerCase(m.username) = derived) = {}
        /\ ~Contains(derived, "@")

AddedTags(d) ==
    IF ChangesOf(d).tags = NoField THEN {}
    ELSE Range(ChangesOf(d).tags[1].new) \ Range(ChangesOf(d).tags[1].old)

RemovedTags(d) ==
    IF ChangesOf(d).tags = NoField THEN {}
    ELSE Range(ChangesOf(d).tags[1].old) \ Range(ChangesOf(d).tags[1].new)

KeptTags(d) ==
    IF ChangesOf(d).tags = NoField THEN {}
    ELSE Range(ChangesOf(d).tags[1].old) \cap Range(ChangesOf(d).tags[1].new)

\* What a tags line says after its first words.
TagsListed(line) == SubSeq(line, Len(SummaryMarkers[5]) + 1, Len(line))

\* The line lists +tag for each tag added, -tag for each tag removed, and
\* nothing else: it has the length of those entries and of what separates
\* them.
ListsTheDiff(d, line) ==
    LET listed == TagsListed(line)
        Entries(tags) == IF tags = {} THEN 0 ELSE 2 * Cardinality(tags) - 1
        RECURSIVE Letters(_)
        Letters(tags) ==
            IF tags = {} THEN 0
            ELSE LET t == CHOOSE t \in tags : TRUE IN 1 + Len(t) + Letters(tags \ {t})
    IN  /\ \A t \in AddedTags(d) : Contains(listed, "+" \o t)
        /\ \A t \in RemovedTags(d) : Contains(listed, "-" \o t)
        /\ \A t \in KeptTags(d) : ~Contains(listed, t)
        /\ Len(listed) = Letters(AddedTags(d)) + Entries(AddedTags(d))
                           + Letters(RemovedTags(d)) + Entries(RemovedTags(d))

\* C34: the summary of an update has one tags line when a tag was added or
\* removed and none otherwise; the line lists +tag for every tag of new \ old
\* and -tag for every tag of old \ new, and mentions no tag that is in both.
\* This holds of the summary as it is built and of the message as posted.
C34_TagsLineListsTheDiff ==
    \A d \in Deliveries :
        (Effective(d) /\ req[d].content.changes # <<>>)
        => /\ pc[d] = "ud_post"
                => LET parts == loc[d].updateParts
                       lines == { i \in 1..Len(parts) : FieldOf(parts[i]) = 5 }
                   IN  /\ Cardinality(lines) = IF AddedTags(d) \cup RemovedTags(d) = {}
                                               THEN 0 ELSE 1
                       /\ \A i \in lines : ListsTheDiff(d, parts[i])
           /\ out[d].message # <<>>
                => LET text == out[d].message[1].text
                       lines == { i \in 1..Len(text) : StartsWithAt(text, SummaryMarkers[5], i) }
                   IN  /\ Cardinality(lines) = IF AddedTags(d) \cup RemovedTags(d) = {}
                                               THEN 0 ELSE 1
                       /\ \A i \in lines : ListsTheDiff(d, SubSeq(text, i, Len(text)))

C34_Witness ==
    \E d \in Deliveries :
        /\ Effective(d) /\ Succeeded(d) /\ out[d].message # <<>>
        /\ AddedTags(d) = {"c"} /\ RemovedTags(d) = {"a"} /\ KeptTags(d) = {"b"}
        /\ TagsListed(SubSeq(out[d].message[1].text, LineAt(d, 5),
                             Len(out[d].message[1].text))) = " +c -a"


\* Delivery d carried no reference and was answered with success and a
\* discussion.
AnsweredWithDiscussion(d) ==
    Unreferenced(d) /\ Succeeded(d) /\ "discussion" \in DOMAIN resp[d].content

\* C35: however the deliveries for one record that carry no reference
\* interleave, the success responses with a discussion all carry the same
\* {id, url}, and once every delivery is answered that is the {roomId,
\* roomUrl} the store holds for the record.
C35_OneDiscussionAnswered ==
    \A d, e \in Deliveries :
        (/\ AnsweredWithDiscussion(d) /\ AnsweredWithDiscussion(e)
         /\ RecordId(d) = RecordId(e))
        => /\ resp[d].content.discussion = resp[e].content.discussion
           /\ Quiescent
                => /\ getDiscussion(store, RecordId(d)) # <<>>
                   /\ resp[d].content.discussion =
                         [id |-> getDiscussion(store, RecordId(d))[1].roomId,
                          url |-> getDiscussion(store, RecordId(d))[1].roomUrl]


\* C36: of two rfd.updated deliveries with the same record and a reference to
\* work with, one without a ChangeSet and one with a ChangeSet in which every
\* field is absent, both call no collaborator and both are answered with
\* success, when no call was made to fail.
C36_AbsentAsEmptyChangeSet ==
    \A d, e \in Deliveries :
        (/\ Effective(d) /\ Effective(e) /\ Answered(d) /\ Answered(e)
         /\ req[d].content.rfd = req[e].content.rfd
         /\ req[d].content.changes = <<>>
         /\ req[e].content.changes = <<EmptyChanges>>
         /\ faults = 0)
        => /\ out[d].calls \cap CollaboratorCalls = {}
           /\ out[e].calls \cap CollaboratorCalls = out[d].calls \cap CollaboratorCalls
           /\ Succeeded(d) /\ Succeeded(e)
           /\ resp[e].status = resp[d].status


\* C37: an rfd.created delivery whose record carries a reference is answered
\* with that reference for the url and, for the id, the room identifier
\* DiscussionManager.extractRoomIdFromUrl reads from it, in the direct and in
\* the deep-link form.
C37_ResponseIdIsExtractedId ==
    \A d \in Deliveries :
        (Handled(d, "rfd.created") /\ Reference(d) # "" /\ Answered(d))
        => /\ Succeeded(d)
           /\ resp[d].content.discussion.url = Reference(d)
           /\ resp[d].content.discussion.id = extractRoomIdFromUrl(Reference(d))


\* C38: the message of an update has a 'New authors added' line only when
\* addAuthorsToDiscussion was entered for them: a discussion without a parent
\* room that can be found gets no such line.
C38_AuthorsLineOnlyAfterMembership ==
    \A d \in Deliveries :
        (/\ Effective(d) /\ req[d].content.changes # <<>>
         /\ out[d].message # <<>>
         /\ "addAuthors.getAppUser" \notin out[d].calls)
        => LineAt(d, 4) = 0

====
